---- MODULE Spec2Model ----
(***************************************************************************)
(* A model of the streaming pipeline of realtime-ml-system:                *)
(*   - the candles service (services/candles): trade validation, the       *)
(*     tumbling-window reducer init_candle / update_candle, output         *)
(*     validation and emission to the candles topic;                       *)
(*   - the historical trades ingestion (services/trades, KrakenRestAPI)    *)
(*     and the live one (KrakenWebsocketAPI);                              *)
(*   - the technical indicators service (services/technical_indicators):   *)
(*     the candle filter, the per-pair candle list and the indicators;     *)
(*   - the predictions service (services/predictions): the reference       *)
(*     model, the construction of a Prediction and the produce.            *)
(*                                                                         *)
(* Numbers. Prices and quantities are exact decimal amounts, written here  *)
(* as integers (a count of ticks): on such values the float arithmetic of  *)
(* the reducer (max, min, +) is exact.  Strings are sequences of           *)
(* one-character strings, so that str.strip() can be computed.  A value    *)
(* serialized by str(Decimal) is the tagged pair <<"str", v>>, which is    *)
(* never equal to the number v.                                            *)
(***************************************************************************)
EXTENDS Integers, Sequences, FiniteSets, TLC

VARIABLES
    \* ---- candles service
    windows,            \* window store of the reducer: window start -> candle | NoCandle
    latest_timestamp,   \* highest event time seen by the window store
    candles_topic,      \* records produced to the candles topic, in order
    folded,             \* history: window start -> trades folded into it, in arrival order
    consumed,           \* number of trades consumed from the trades topic
    crashed,            \* an exception escaped the dataflow
    logged,             \* log levels written while handling the last trade
    \* ---- TradeMessage.from_dict taken alone
    v_trade, v_now, v_result,
    \* ---- KrakenRestAPI
    product_ids, last_n_days, current_product_index, current_product_id, is_done,
    since_timestamp_ns, original_since_timestamp_ns,
    clock_ns,           \* time.time_ns()
    request,            \* parameters of the last request sent: <<>> or <<[pair, since]>>
    response_last,      \* result.last of the last successful response: <<>> or <<ts>>
    returned,           \* value returned by the last get_trades call
    raw_rows,           \* trade rows of the last successful response
    calls,              \* how the last get_trades call ended
    finished,           \* history: indexes of the pairs whose stop condition was met
    exchange_cursor,    \* exchange side: highest cursor handed out for the current pair
    \* ---- KrakenWebsocketAPI
    ws_client,          \* the connection get_trades reads from (its number)
    ws_received,        \* frames taken from the connection by recv()
    ws_frames,          \* history: the frames get_trades was given, in order
    ws_returned,        \* value returned by the last get_trades call
    ws_outcome,         \* how the last get_trades call ended: "returned" or an exception
    ws_emitted,         \* history: every trade returned so far, in order
    \* ---- technical indicators service
    ti_settings,        \* Settings of the service
    ti_state,           \* pair -> the 'candles' list of the pair's state
    ti_topic,           \* records produced to the technical_indicators topic
    ti_trace,           \* history: for each consumed candle, what the dataflow did with it
    \* ---- predictions service
    pred_topic,         \* records produced to the predictions topic
    pred_trace,         \* history: for each consumed record, what the dataflow did with it
    \* ---- init_candle / update_candle taken alone
    r_candle,           \* the candle state: <<>> or <<candle>>
    r_trades,           \* history: the trades given to the reducer, in order
    r_logged,           \* history: the levels logged for each of them
    \* ---- start-up of the services
    sink_tables,        \* the tables that exist in the sink store
    start_trace         \* history: for each start-up, what it did

candleVars == <<windows, latest_timestamp, candles_topic, folded, consumed, crashed, logged>>
validateVars == <<v_trade, v_now, v_result>>
restVars == <<product_ids, last_n_days, current_product_index, current_product_id, is_done,
              since_timestamp_ns, original_since_timestamp_ns, clock_ns, request,
              response_last, returned, raw_rows, calls, finished, exchange_cursor>>
wsVars == <<ws_client, ws_received, ws_frames, ws_returned, ws_outcome, ws_emitted>>
tiVars == <<ti_settings, ti_state, ti_topic, ti_trace>>
predVars == <<pred_topic, pred_trace>>
reducerVars == <<r_candle, r_trades, r_logged>>
startVars == <<sink_tables, start_trace>>
extraVars == <<reducerVars, startVars>>
serviceVars == <<wsVars, tiVars, predVars, extraVars>>
vars == <<candleVars, validateVars, restVars, serviceVars>>

----
(* Bounds of the model *)

\* trades consumed by the candles service in one run
MaxTrades == 3
\* the wall clock (ms) while the candles service runs
ClockMs == 150000

(* Program constants *)

candle_seconds == 60
MaxPrice == 10000000
MaxQuantity == 1000000000
FutureSkewMs == 60000
MaxAgeMs == 86400000

----
(* Helpers *)

Max2(a, b) == IF a >= b THEN a ELSE b
Min2(a, b) == IF a <= b THEN a ELSE b

RECURSIVE SeqMax(_)
SeqMax(s) == IF Len(s) = 1 THEN s[1] ELSE Max2(s[1], SeqMax(Tail(s)))
RECURSIVE SeqMin(_)
SeqMin(s) == IF Len(s) = 1 THEN s[1] ELSE Min2(s[1], SeqMin(Tail(s)))
RECURSIVE SeqSum(_)
SeqSum(s) == IF s = <<>> THEN 0 ELSE s[1] + SeqSum(Tail(s))

\* str.strip(): leading and trailing blanks removed
RECURSIVE LStrip(_)
LStrip(s) == IF s # <<>> /\ s[1] = " " THEN LStrip(Tail(s)) ELSE s
RECURSIVE RStrip(_)
RStrip(s) == IF s # <<>> /\ s[Len(s)] = " " THEN RStrip(SubSeq(s, 1, Len(s) - 1)) ELSE s
Strip(s) == RStrip(LStrip(s))

BTCUSD == <<"B", "T", "C", "/", "U", "S", "D">>

----
(* TradeMessage: validation of an incoming trade *)

\* Field(min_length=1) and validate_product_id
ProductIdOk(p) == Len(p) >= 1 /\ Strip(p) # <<>>
\* the price check with a slip: no upper limit
PriceOk_no_limit(p) == p > 0

\* Field(gt=0) and validate_price
PriceOk(p) == p > 0 /\ ~(p > MaxPrice)
\* Field(ge=0) and validate_quantity
QuantityOk(q) == q >= 0 /\ ~(q > MaxQuantity)
\* validate_timestamp
TimestampOk(t, now) == ~(t > now + FutureSkewMs) /\ ~(t < now - MaxAgeMs)

\* TradeMessage.from_dict: "ok" when a TradeMessage is built, "InvalidTradeError"
\* when any field fails (every exception is re-raised as InvalidTradeError)
TradeMessage_from_dict(trade, now) ==
    IF /\ ProductIdOk(trade.product_id)
       /\ PriceOk(trade.price)
       /\ QuantityOk(trade.quantity)
       /\ TimestampOk(trade.timestamp_ms, now)
    THEN "ok" ELSE "InvalidTradeError"

----
(* Candles service: the reducer *)

Prices == {0, 90, 100, 120}
Quantities == {-1, 2}
Timestamps == {60000, 80000, 120000}

\* the trades the trades topic may hold for the one key (pair) modelled
TradeValues ==
    [product_id : {BTCUSD}, price : Prices, quantity : Quantities, timestamp_ms : Timestamps]

\* the record timestamp the log gives the n-th message (its append time)
RecordTimestamp(n) == 120000 + n

\* levels logged by the optional validation in init_candle (first) / update_candle
ValidationLog(trade, now, first) ==
    IF TradeMessage_from_dict(trade, now) = "ok"
    THEN (IF first THEN {"debug"} ELSE {})
    ELSE {"warning"}

init_candle(trade) ==
    [open |-> trade.price, high |-> trade.price, low |-> trade.price,
     close |-> trade.price, volume |-> trade.quantity, pair |-> trade.product_id]

\* update_candle with slips: the high is overwritten
update_candle_high_overwritten(candle, trade) ==
    [candle EXCEPT !.high = trade.price,
                   !.low = Min2(candle.low, trade.price),
                   !.close = trade.price,
                   !.volume = candle.volume + trade.quantity]

\* ... the open is overwritten too
update_candle_open_rewritten(candle, trade) ==
    [candle EXCEPT !.open = trade.price,
                   !.high = Max2(candle.high, trade.price),
                   !.low = Min2(candle.low, trade.price),
                   !.close = trade.price,
                   !.volume = candle.volume + trade.quantity]

\* ... the low is never updated
update_candle_low_kept(candle, trade) ==
    [candle EXCEPT !.high = Max2(candle.high, trade.price),
                   !.close = trade.price,
                   !.volume = candle.volume + trade.quantity]

\* ... the pair is taken from each trade
update_candle_pair_rewritten(candle, trade) ==
    [candle EXCEPT !.high = Max2(candle.high, trade.price),
                   !.low = Min2(candle.low, trade.price),
                   !.close = trade.price,
                   !.volume = candle.volume + trade.quantity,
                   !.pair = trade.product_id]

\* ... a trade that fails the validation is left out
update_candle_invalid_dropped(candle, trade) ==
    IF TradeMessage_from_dict(trade, ClockMs) = "ok"
    THEN [candle EXCEPT !.high = Max2(candle.high, trade.price),
                        !.low = Min2(candle.low, trade.price),
                        !.close = trade.price,
                        !.volume = candle.volume + trade.quantity]
    ELSE candle

update_candle(candle, trade) ==
    [candle EXCEPT !.high = Max2(candle.high, trade.price),
                   !.low = Min2(candle.low, trade.price),
                   !.close = trade.price,
                   !.volume = candle.volume + trade.quantity]

----
(* Candles service: event time and tumbling windows *)

\* the extractor with a slip: the record's own timestamp is used
custom_ts_extractor_record_time(value, timestamp) == timestamp

\* the timestamp handed to the window store for a message
custom_ts_extractor(value, timestamp) == value.timestamp_ms

\* width of a window in ms
W == candle_seconds * 1000

\* tumbling_window: the window [start, start + W) that contains event time t
WindowStart(t) == t - (t % W)
WindowEnd(t) == WindowStart(t) + W

WindowStarts == {WindowStart(t) : t \in Timestamps}

\* reduce(reducer=update_candle, initializer=init_candle) on the window's state
Reduce(current, trade) ==
    IF current = <<>> THEN init_candle(trade) ELSE update_candle(current[1], trade)

\* windows whose end is not after the latest event time are closed and deleted
ExpireWindows(store, latest) ==
    [s \in DOMAIN store |-> IF s + W <= latest THEN <<>> ELSE store[s]]

----
(* Candles service: output validation and formatting *)

ToStr(v) == <<"str", v>>

\* the dataframe value after the column assignments and the column selection
AggregationRecord(start, end, candle) ==
    [pair |-> candle.pair, open |-> candle.open, high |-> candle.high,
     low |-> candle.low, close |-> candle.close, volume |-> candle.volume,
     window_start_ms |-> start, window_end_ms |-> end,
     candle_seconds |-> candle_seconds]

\* CandleOutput(...) and validate_ohlc_consistency: the exception raised, if any.
\* Fields are validated in declaration order; an exception of the service
\* (ValidationError) leaves at once, a constraint failure (volume ge=0,
\* candle_seconds gt=0) is reported by pydantic after the last field.
CandleOutputError(r) ==
    IF r.open <= 0 \/ r.high <= 0 \/ r.low <= 0 \/ r.close <= 0 THEN "ValidationError"
    ELSE IF r.window_end_ms <= r.window_start_ms THEN "ValidationError"
    ELSE IF r.volume < 0 \/ ~(r.candle_seconds > 0) THEN "pydantic.ValidationError"
    ELSE IF r.high < r.low THEN "ValidationError"
    ELSE IF r.open > r.high \/ r.open < r.low THEN "ValidationError"
    ELSE IF r.close > r.high \/ r.close < r.low THEN "ValidationError"
    ELSE "none"

\* from_aggregation_result with a slip: only the service's own exception is caught
from_aggregation_result_uncaught(r) ==
    IF CandleOutputError(r) = "none"
    THEN [raised |-> "none", output |-> r]
    ELSE [raised |-> CandleOutputError(r)]

\* CandleOutput.from_aggregation_result: every exception is re-raised as ValidationError
from_aggregation_result(r) ==
    IF CandleOutputError(r) = "none"
    THEN [raised |-> "none", output |-> r]
    ELSE [raised |-> "ValidationError"]

to_kafka_message(o) ==
    [pair |-> o.pair, open |-> ToStr(o.open), high |-> ToStr(o.high),
     low |-> ToStr(o.low), close |-> ToStr(o.close), volume |-> ToStr(o.volume),
     window_start_ms |-> o.window_start_ms, window_end_ms |-> o.window_end_ms,
     candle_seconds |-> o.candle_seconds, schema_version |-> "1.0"]

\* validate_and_format_candle: what it returns, or the exception that leaves it
validate_and_format_candle(candle_data) ==
    LET res == from_aggregation_result(candle_data) IN
    IF res.raised = "none"
    THEN [raised |-> "none", value |-> to_kafka_message(res.output), log |-> {}]
    ELSE IF res.raised = "ValidationError"
    THEN [raised |-> "none", value |-> candle_data, log |-> {"error"}]
    ELSE [raised |-> res.raised, log |-> {}]

\* sdf.update(f): f is called on the value, its result is ignored and the value
\* itself goes downstream
SdfUpdate(value, result) == value

----
(* Candles service: the dataflow, one step per message of the trades topic *)

CandlesInit ==
    /\ windows = [s \in WindowStarts |-> <<>>]
    /\ latest_timestamp = 0
    /\ candles_topic = <<>>
    /\ folded = [s \in WindowStarts |-> <<>>]
    /\ consumed = 0
    /\ crashed = FALSE
    /\ logged = {}

CandlesIdle ==
    /\ windows = <<>>
    /\ latest_timestamp = 0
    /\ candles_topic = <<>>
    /\ folded = <<>>
    /\ consumed = 0
    /\ crashed = FALSE
    /\ logged = {}

\* run_candles_service: a trade is read, windowed on its payload time and reduced
\* (a late trade is dropped), the current candle is flattened, validated and
\* produced
ConsumeTrade(trade) ==
    /\ ~crashed
    /\ consumed < MaxTrades
    /\ LET ts == custom_ts_extractor(trade, RecordTimestamp(consumed))
           start == WindowStart(ts)
           end == WindowEnd(ts)
           latest == Max2(ts, latest_timestamp)
           late == end <= latest
           candle == Reduce(windows[start], trade)
           value == AggregationRecord(start, end, candle)
           result == validate_and_format_candle(value)
       IN
       /\ consumed' = consumed + 1
       /\ latest_timestamp' = latest
       /\ IF late
          THEN /\ windows' = ExpireWindows(windows, latest)
               /\ logged' = {"warning"}
               /\ UNCHANGED <<candles_topic, folded, crashed>>
          ELSE /\ windows' = ExpireWindows([windows EXCEPT ![start] = <<candle>>], latest)
               /\ folded' = [folded EXCEPT ![start] = Append(@, trade)]
               /\ logged' = ValidationLog(trade, ClockMs, windows[start] = <<>>)
                               \cup result.log
               /\ IF result.raised = "none"
                  THEN /\ candles_topic' = Append(candles_topic, SdfUpdate(value, result.value))
                       /\ crashed' = FALSE
                  ELSE /\ crashed' = TRUE
                       /\ UNCHANGED candles_topic
    /\ UNCHANGED <<validateVars, restVars, serviceVars>>

NextCandles == \E trade \in TradeValues : ConsumeTrade(trade)

----
(* TradeMessage.from_dict taken alone: a trade and a clock are drawn, the      *)
(* validation is applied once                                                  *)

ValidatedPairs == {BTCUSD, <<>>, <<" ">>, <<" ", "B", " ">>}
ValidatedPrices == {-1, 0, 1, MaxPrice, MaxPrice + 1}
ValidatedQuantities == {-1, 0, 1, MaxQuantity, MaxQuantity + 1}
ValidationClocks == {ClockMs, MaxAgeMs + ClockMs}
\* timestamps at and around the two ends of the accepted range
ValidatedTimestamps(now) ==
    {now, now + FutureSkewMs, now + FutureSkewMs + 1, Max2(0, now - MaxAgeMs),
     Max2(0, now - MaxAgeMs - 1)}

ValidateInit ==
    /\ v_now \in ValidationClocks
    /\ v_trade \in [product_id : ValidatedPairs, price : ValidatedPrices,
                    quantity : ValidatedQuantities,
                    timestamp_ms : ValidatedTimestamps(v_now)]
    /\ v_result = "pending"

ValidateIdle ==
    /\ v_now = 0
    /\ v_trade = <<>>
    /\ v_result = "pending"

ValidateTrade ==
    /\ v_result = "pending"
    /\ v_result' = TradeMessage_from_dict(v_trade, v_now)
    /\ UNCHANGED <<v_trade, v_now, candleVars, restVars, serviceVars>>

NextValidate == ValidateTrade

----
(* KrakenRestAPI: time                                                         *)
(*                                                                             *)
(* A time in nanoseconds is EpochBase + s * 10^9 + n with EpochBase = 2^60     *)
(* (a day of 2006) and 0 <= n < 10^9, written [s |-> s, n |-> n].  Every time  *)
(* of this model lies in [2^60, 2^61), where two neighbouring doubles are 256  *)
(* apart; EpochBase and 10^9 are multiples of 512.                             *)

NANOSECONDS_PER_SECOND == 1000000000
SECONDS_PER_DAY == 24 * 60 * 60
RETRY_DELAY_SECONDS == 10
\* distance of two neighbouring doubles in [2^60, 2^61)
FloatSpacing == 256

\* the wall clock when the KrakenRestAPI object is built: seconds after
\* EpochBase + last_n_days days
StartSecond == 5
\* times the wall clock may advance (by RETRY_DELAY_SECONDS) during a run
MaxTicks == 2

Ts(s, n) == [s |-> s, n |-> n]
TsLess(a, b) == a.s < b.s \/ (a.s = b.s /\ a.n < b.n)
TsMinusSeconds(a, k) == Ts(a.s - k, a.n)
TsPlusSeconds(a, k) == Ts(a.s + k, a.n)

\* int(float(x)) of a cursor x: the nearest multiple of FloatSpacing, a tie
\* going to the even multiple
IntOfFloat(x) ==
    LET q == x.n \div FloatSpacing
        r == x.n % FloatSpacing
        up == (2 * r > FloatSpacing) \/ (2 * r = FloatSpacing /\ q % 2 = 1)
        n == (IF up THEN q + 1 ELSE q) * FloatSpacing
    IN IF n >= NANOSECONDS_PER_SECOND THEN Ts(x.s + 1, n - NANOSECONDS_PER_SECOND)
       ELSE Ts(x.s, n)

----
(* KrakenRestAPI: the object *)

\* the fields of the object as one record
Api ==
    [product_ids |-> product_ids, current_product_index |-> current_product_index,
     current_product_id |-> current_product_id, is_done |-> is_done,
     since_timestamp_ns |-> since_timestamp_ns,
     original_since_timestamp_ns |-> original_since_timestamp_ns]

\* __init__
KrakenRestAPI_init(ids, days, now) ==
    [product_ids |-> ids, current_product_index |-> 0,
     current_product_id |-> ids[1], is_done |-> FALSE,
     since_timestamp_ns |-> TsMinusSeconds(now, days * SECONDS_PER_DAY),
     original_since_timestamp_ns |-> TsMinusSeconds(now, days * SECONDS_PER_DAY)]

\* _make_request: the parameters sent
RequestParams(api) == [pair |-> api.current_product_id, since |-> api.since_timestamp_ns]

\* Trade.from_kraken_rest_api_response
Trade_from_kraken_rest_api_response(product_id, price, quantity, timestamp_sec) ==
    [product_id |-> product_id, price |-> price, quantity |-> quantity,
     timestamp_ms |-> timestamp_sec * 1000]

\* _convert_to_trade_objects
convert_to_trade_objects(api, trades_data) ==
    [i \in 1..Len(trades_data) |->
        Trade_from_kraken_rest_api_response(api.current_product_id, trades_data[i][1],
                                            trades_data[i][2], trades_data[i][3])]

\* _move_to_next_product with a slip: after the last pair the first one is
\* taken again
move_to_next_product_wraps(api) ==
    LET index == (api.current_product_index + 1) % Len(api.product_ids) IN
    [api EXCEPT !.current_product_index = index,
                !.current_product_id = api.product_ids[index + 1],
                !.since_timestamp_ns = api.original_since_timestamp_ns]

\* ... the cursor of the finished pair is kept for the next one
move_to_next_product_keeps_since(api) ==
    LET index == api.current_product_index + 1 IN
    IF index >= Len(api.product_ids)
    THEN [api EXCEPT !.current_product_index = index, !.is_done = TRUE]
    ELSE [api EXCEPT !.current_product_index = index,
                     !.current_product_id = api.product_ids[index + 1]]

\* ... the ingestion is declared done on reaching the last pair
move_to_next_product_done_early(api) ==
    LET index == api.current_product_index + 1 IN
    IF index >= Len(api.product_ids) - 1
    THEN [api EXCEPT !.current_product_index = index, !.is_done = TRUE]
    ELSE [api EXCEPT !.current_product_index = index,
                     !.current_product_id = api.product_ids[index + 1],
                     !.since_timestamp_ns = api.original_since_timestamp_ns]

\* _move_to_next_product
move_to_next_product(api) ==
    LET index == api.current_product_index + 1 IN
    IF index >= Len(api.product_ids)
    THEN [api EXCEPT !.current_product_index = index, !.is_done = TRUE]
    ELSE [api EXCEPT !.current_product_index = index,
                     !.current_product_id = api.product_ids[index + 1],
                     !.since_timestamp_ns = api.original_since_timestamp_ns]

\* the stopping condition of _update_timestamp
StopCondition(since, now) == TsLess(TsMinusSeconds(now, 1), since)

\* _update_timestamp, data['result']['last'] being last
update_timestamp(api, last, now) ==
    LET a == [api EXCEPT !.since_timestamp_ns = IntOfFloat(last)] IN
    IF StopCondition(a.since_timestamp_ns, now) THEN move_to_next_product(a) ELSE a

----
(* KrakenRestAPI: get_trades, one step per call, and the exchange *)

PairLists == {<<"BTC/USD">>, <<"BTC/USD", "ETH/USD">>}

\* trade rows [price, volume, time in seconds] of a response
RowA == <<100, 1, 7>>
RowB == <<120, 2, 8>>
RowLists == {<<>>, <<RowA, RowB>>}

\* nanosecond parts of the cursors the exchange hands out
CursorNanos == {0, 100, 384}
\* the cursors the exchange may return to a request for the trades after since
\* made at time now: not before since, not after now
CursorsAround(since, now) ==
    {Ts(sec, n) : sec \in {since.s, now.s - 2, now.s - 1, now.s}, n \in CursorNanos}
Cursors(since, now) ==
    {c \in CursorsAround(since, now) : ~TsLess(c, since) /\ ~TsLess(now, c)}

FailKinds == {"ssl", "request", "json", "api_error", "missing_pair"}

ClockEnd == last_n_days * SECONDS_PER_DAY + StartSecond + MaxTicks * RETRY_DELAY_SECONDS

RestInit ==
    /\ last_n_days = 1
    /\ clock_ns = Ts(last_n_days * SECONDS_PER_DAY + StartSecond, 200)
    /\ product_ids \in PairLists
    /\ LET api == KrakenRestAPI_init(product_ids, last_n_days, clock_ns) IN
       /\ current_product_index = api.current_product_index
       /\ current_product_id = api.current_product_id
       /\ is_done = api.is_done
       /\ since_timestamp_ns = api.since_timestamp_ns
       /\ original_since_timestamp_ns = api.original_since_timestamp_ns
       /\ exchange_cursor = api.since_timestamp_ns
    /\ request = <<>>
    /\ response_last = <<>>
    /\ returned = <<>>
    /\ raw_rows = <<>>
    /\ calls = "none"
    /\ finished = {}

RestIdle ==
    /\ last_n_days = 0
    /\ clock_ns = Ts(0, 0)
    /\ product_ids = <<>>
    /\ current_product_index = 0
    /\ current_product_id = ""
    /\ is_done = FALSE
    /\ since_timestamp_ns = Ts(0, 0)
    /\ original_since_timestamp_ns = Ts(0, 0)
    /\ exchange_cursor = Ts(0, 0)
    /\ request = <<>>
    /\ response_last = <<>>
    /\ returned = <<>>
    /\ raw_rows = <<>>
    /\ calls = "none"
    /\ finished = {}

\* the fields of the object become those of record api
SetApi(api) ==
    /\ current_product_index' = api.current_product_index
    /\ current_product_id' = api.current_product_id
    /\ is_done' = api.is_done
    /\ since_timestamp_ns' = api.since_timestamp_ns
    /\ original_since_timestamp_ns' = api.original_since_timestamp_ns
    /\ UNCHANGED <<product_ids, last_n_days>>

\* get_trades once every pair is finished: nothing is requested
GetTradesDone ==
    /\ is_done \/ current_product_id = ""
    /\ returned' = <<>>
    /\ calls' = "done"
    /\ UNCHANGED <<product_ids, last_n_days, current_product_index, current_product_id,
                   is_done, since_timestamp_ns, original_since_timestamp_ns, clock_ns,
                   request, response_last, raw_rows, finished, exchange_cursor>>
    /\ UNCHANGED <<candleVars, validateVars, serviceVars>>

\* get_trades when the round fails, with a slip: the cursor goes back to the
\* start of the pair
GetTradesFail_restarts_pair(kind) ==
    /\ ~(is_done \/ current_product_id = "")
    /\ kind = "ssl" => clock_ns.s + RETRY_DELAY_SECONDS <= ClockEnd
    /\ request' = <<RequestParams(Api)>>
    /\ clock_ns' = IF kind = "ssl" THEN TsPlusSeconds(clock_ns, RETRY_DELAY_SECONDS)
                   ELSE clock_ns
    /\ returned' = <<>>
    /\ calls' = kind
    /\ since_timestamp_ns' = original_since_timestamp_ns
    /\ UNCHANGED <<product_ids, last_n_days, current_product_index, current_product_id,
                   is_done, original_since_timestamp_ns,
                   response_last, raw_rows, finished, exchange_cursor>>
    /\ UNCHANGED <<candleVars, validateVars, serviceVars>>

\* get_trades when the round fails: _make_request, _parse_response or
\* _extract_trades_data gives None (an SSL error first sleeps)
GetTradesFail(kind) ==
    /\ ~(is_done \/ current_product_id = "")
    /\ kind = "ssl" => clock_ns.s + RETRY_DELAY_SECONDS <= ClockEnd
    /\ request' = <<RequestParams(Api)>>
    /\ clock_ns' = IF kind = "ssl" THEN TsPlusSeconds(clock_ns, RETRY_DELAY_SECONDS)
                   ELSE clock_ns
    /\ returned' = <<>>
    /\ calls' = kind
    /\ UNCHANGED <<product_ids, last_n_days, current_product_index, current_product_id,
                   is_done, since_timestamp_ns, original_since_timestamp_ns,
                   response_last, raw_rows, finished, exchange_cursor>>
    /\ UNCHANGED <<candleVars, validateVars, serviceVars>>

\* get_trades when the exchange answers with rows and the cursor last
GetTradesOk(rows, last) ==
    /\ ~(is_done \/ current_product_id = "")
    /\ LET api == update_timestamp(Api, last, clock_ns)
           moved == api.current_product_index # current_product_index
       IN
       /\ request' = <<RequestParams(Api)>>
       /\ raw_rows' = rows
       /\ response_last' = <<last>>
       /\ returned' = convert_to_trade_objects(Api, rows)
       /\ SetApi(api)
       /\ calls' = IF api.is_done THEN "ok_done" ELSE IF moved THEN "ok_next" ELSE "ok"
       /\ finished' = IF moved THEN finished \cup {current_product_index} ELSE finished
       /\ exchange_cursor' = IF moved THEN api.original_since_timestamp_ns
                             ELSE IF TsLess(exchange_cursor, last) THEN last
                             ELSE exchange_cursor
    /\ UNCHANGED clock_ns
    /\ UNCHANGED <<candleVars, validateVars, serviceVars>>

\* the malformed payloads of a round
MalformedKinds == {"missing_last", "short_row"}

\* get_trades when the payload is malformed: a trade row that is too short
\* makes _convert_to_trade_objects raise IndexError, a result without last makes
\* _update_timestamp raise KeyError; neither is caught, so nothing is returned
\* and no field is assigned
GetTradesRaise(kind) ==
    /\ ~(is_done \/ current_product_id = "")
    /\ request' = <<RequestParams(Api)>>
    /\ calls' = IF kind = "short_row" THEN "IndexError" ELSE "KeyError"
    /\ UNCHANGED <<product_ids, last_n_days, current_product_index, current_product_id,
                   is_done, since_timestamp_ns, original_since_timestamp_ns, clock_ns,
                   response_last, returned, raw_rows, finished, exchange_cursor>>
    /\ UNCHANGED <<candleVars, validateVars, serviceVars>>

\* the wall clock advances between two calls
Tick ==
    /\ clock_ns.s + RETRY_DELAY_SECONDS <= ClockEnd
    /\ clock_ns' = TsPlusSeconds(clock_ns, RETRY_DELAY_SECONDS)
    /\ UNCHANGED <<product_ids, last_n_days, current_product_index, current_product_id,
                   is_done, since_timestamp_ns, original_since_timestamp_ns,
                   request, response_last, returned, raw_rows, calls, finished,
                   exchange_cursor>>
    /\ UNCHANGED <<candleVars, validateVars, serviceVars>>

NextRest ==
    \/ GetTradesDone
    \/ \E kind \in FailKinds : GetTradesFail(kind)
    \/ \E kind \in MalformedKinds : GetTradesRaise(kind)
    \/ \E rows \in RowLists : \E last \in Cursors(since_timestamp_ns, clock_ns) :
          GetTradesOk(rows, last)
    \/ Tick

\* the exchange answers and its cursor advances
GetTradesAdvance ==
    \E rows \in RowLists : \E last \in Cursors(since_timestamp_ns, clock_ns) :
        /\ TsLess(exchange_cursor, last)
        /\ GetTradesOk(rows, last)

NextRestFair ==
    \/ GetTradesDone
    \/ \E kind \in FailKinds : GetTradesFail(kind)
    \/ \E kind \in MalformedKinds : GetTradesRaise(kind)
    \/ GetTradesAdvance
    \/ Tick

----
(* Live ingestion: KrakenWebsocketAPI                                          *)
(*                                                                             *)
(* A frame is the text recv() gives.  It is described by whether the text      *)
(* holds the word heartbeat and by what json.loads makes of it: not JSON,      *)
(* JSON that is not an object, or a JSON object (a record of its keys).  The   *)
(* value of a data key is a list of elements or null; an element is a record   *)
(* of the keys it has.  An ISO time string is the pair <<"iso", ms>>.          *)

\* frames read by get_trades in one run
MaxFrames == 3

WsProductIds == <<"BTC/USD", "ETH/USD">>

JsonInvalid == [type |-> "invalid", value |-> [channel |-> "none"]]
JsonArray == [type |-> "array", value |-> [channel |-> "none"]]
JsonObject(fields) == [type |-> "object", value |-> fields]
JsonList(items) == [type |-> "list", items |-> items]
JsonNull == [type |-> "null", items |-> <<>>]

Frame(heartbeat, json) == [heartbeat |-> heartbeat, json |-> json]

\* Trade.from_kraken_websocket_response: the ISO time becomes milliseconds
Trade_from_kraken_websocket_response(product_id, price, quantity, timestamp) ==
    [product_id |-> product_id, price |-> price, quantity |-> quantity,
     timestamp_ms |-> timestamp[2]]

\* how a call ends: it returns a list, or an exception escapes it
Returned(trades) == [outcome |-> "returned", trades |-> trades]
Raised(exception) == [outcome |-> exception, trades |-> <<>>]

\* the keys get_trades reads of an element
ElementKeys == {"symbol", "price", "qty", "timestamp"}

\* the list comprehension of get_trades, without the elements
TradesOfElements(items) ==
    [i \in 1..Len(items) |->
        Trade_from_kraken_websocket_response(items[i].symbol, items[i].price,
                                             items[i].qty, items[i].timestamp)]

\* get_trades with a slip: the newest element of a frame comes first
KrakenWebsocketAPI_get_trades_newest_first(frame) ==
    IF frame.heartbeat THEN Returned(<<>>)
    ELSE IF frame.json.type = "invalid" THEN Returned(<<>>)
    ELSE IF frame.json.type # "object" THEN Raised("TypeError")
    ELSE IF "data" \notin DOMAIN frame.json.value THEN Returned(<<>>)
    ELSE LET trades_data == frame.json.value.data
             n == Len(trades_data.items)
         IN
         IF trades_data.type # "list" THEN Raised("TypeError")
         ELSE IF \E i \in 1..n : ~(ElementKeys \subseteq DOMAIN trades_data.items[i])
              THEN Raised("KeyError")
         ELSE Returned([i \in 1..n |-> TradesOfElements(trades_data.items)[n + 1 - i]])

\* get_trades with a slip: the JSON decoding error is not caught
KrakenWebsocketAPI_get_trades_decode_uncaught(frame) ==
    IF frame.heartbeat THEN Returned(<<>>)
    ELSE IF frame.json.type = "invalid" THEN Raised("JSONDecodeError")
    ELSE IF frame.json.type # "object" THEN Raised("TypeError")
    ELSE IF "data" \notin DOMAIN frame.json.value THEN Returned(<<>>)
    ELSE LET trades_data == frame.json.value.data IN
         IF trades_data.type # "list" THEN Raised("TypeError")
         ELSE IF \E i \in 1..Len(trades_data.items) :
                     ~(ElementKeys \subseteq DOMAIN trades_data.items[i])
              THEN Raised("KeyError")
         ELSE Returned(TradesOfElements(trades_data.items))

\* KrakenWebsocketAPI.get_trades on the frame recv() gave.  Only
\* JSONDecodeError and the KeyError of message_data['data'] are caught: a
\* message that is not an object, a data that is not a list and an element
\* that lacks a key raise out of the method
KrakenWebsocketAPI_get_trades(frame) ==
    IF frame.heartbeat THEN Returned(<<>>)
    ELSE IF frame.json.type = "invalid" THEN Returned(<<>>)
    ELSE IF frame.json.type # "object" THEN Raised("TypeError")
    ELSE IF "data" \notin DOMAIN frame.json.value THEN Returned(<<>>)
    ELSE LET trades_data == frame.json.value.data IN
         IF trades_data.type # "list" THEN Raised("TypeError")
         ELSE IF \E i \in 1..Len(trades_data.items) :
                     ~(ElementKeys \subseteq DOMAIN trades_data.items[i])
              THEN Raised("KeyError")
         ELSE Returned(TradesOfElements(trades_data.items))

\* what the exchange may send
ElementA == [symbol |-> "BTC/USD", side |-> "buy", price |-> 100, qty |-> 1,
             timestamp |-> <<"iso", 60000>>]
ElementB == [symbol |-> "ETH/USD", side |-> "sell", price |-> 20, qty |-> 2,
             timestamp |-> <<"iso", 60500>>]
ElementC == [symbol |-> "BTC/USD", side |-> "sell", price |-> 120, qty |-> 3,
             timestamp |-> <<"iso", 61000>>]
ElementNoQty == [symbol |-> "BTC/USD", side |-> "buy", price |-> 100,
                 timestamp |-> <<"iso", 60000>>]
ElementLists == {<<>>, <<ElementA>>, <<ElementC, ElementB, ElementA>>, <<ElementA, ElementC>>,
                 <<ElementA, ElementNoQty>>}

HeartbeatFrame == Frame(TRUE, JsonObject([channel |-> "heartbeat"]))
InvalidJsonFrame == Frame(FALSE, JsonInvalid)
NoDataFrame == Frame(FALSE, JsonObject([channel |-> "status", type |-> "update"]))
ArrayFrame == Frame(FALSE, JsonArray)
NullDataFrame == Frame(FALSE, JsonObject([channel |-> "trade", data |-> JsonNull]))
TradeFrame(items) == Frame(FALSE, JsonObject([channel |-> "trade", type |-> "update",
                                               data |-> JsonList(items)]))
Frames == {HeartbeatFrame, InvalidJsonFrame, NoDataFrame, ArrayFrame, NullDataFrame}
              \cup {TradeFrame(items) : items \in ElementLists}

\* __init__: the connection is made and _subscribe reads two frames for each pair
WsInit ==
    /\ ws_client = 1
    /\ ws_received = 2 * Len(WsProductIds)
    /\ ws_frames = <<>>
    /\ ws_returned = <<>>
    /\ ws_outcome = "none"
    /\ ws_emitted = <<>>

WsIdle ==
    /\ ws_client = 0
    /\ ws_received = 0
    /\ ws_frames = <<>>
    /\ ws_returned = <<>>
    /\ ws_outcome = "none"
    /\ ws_emitted = <<>>

\* one get_trades call: recv() gives the next frame of the connection
WsGetTrades(frame) ==
    /\ Len(ws_frames) < MaxFrames
    /\ LET r == KrakenWebsocketAPI_get_trades(frame) IN
       /\ ws_received' = ws_received + 1
       /\ ws_frames' = Append(ws_frames, frame)
       /\ ws_outcome' = r.outcome
       /\ ws_returned' = r.trades
       /\ ws_emitted' = ws_emitted \o r.trades
    /\ UNCHANGED ws_client
    /\ UNCHANGED <<candleVars, validateVars, restVars, tiVars, predVars, extraVars>>

NextWs == \E frame \in Frames : WsGetTrades(frame)

----
(* Technical indicators service                                                *)
(*                                                                             *)
(* A candle and an indicator record are JSON objects: functions from keys to   *)
(* values.  A key is a tuple: <<"close">> is the key close, <<"sma", 7>> the   *)
(* key sma_7 that f'sma_{period}' builds.  An indicator value is a record      *)
(* [kind, fn, num, den]: kind "number" (the float num/den), "nan", "raise"     *)
(* (the TA-Lib call raised) or "None".  SMA and OBV are computed; of EMA, RSI  *)
(* and MACD only the kind is, their number is left open (num = den = 0).       *)

\* candles consumed by the service in one run
MaxCandles == 3

MACD_MIN_CANDLES == 26
MACD_FAST == 7
MACD_SLOW == 14
MACD_SIGNAL == 9
TALIB_MIN_PERIOD == 2

Number(fn, num, den) == [kind |-> "number", fn |-> fn, num |-> num, den |-> den]
NaN(fn) == [kind |-> "nan", fn |-> fn, num |-> 0, den |-> 0]
BadParam(fn) == [kind |-> "raise", fn |-> fn, num |-> 0, den |-> 0]
NoneValue == [kind |-> "None", fn |-> "None", num |-> 0, den |-> 0]

\* {**f, **g}
Merge(f, g) == [k \in DOMAIN f \cup DOMAIN g |-> IF k \in DOMAIN g THEN g[k] ELSE f[k]]

Column(candles, field) == [i \in 1..Len(candles) |-> candles[i][<<field>>]]

\* talib.stream.SMA: the mean of the last timeperiod values
stream_SMA(close, timeperiod) ==
    IF timeperiod < TALIB_MIN_PERIOD THEN BadParam("SMA")
    ELSE IF Len(close) < timeperiod THEN NaN("SMA")
    ELSE Number("SMA", SeqSum(SubSeq(close, Len(close) - timeperiod + 1, Len(close))),
                timeperiod)

\* talib.stream.EMA: a number from timeperiod values on
stream_EMA(close, timeperiod) ==
    IF timeperiod < TALIB_MIN_PERIOD THEN BadParam("EMA")
    ELSE IF Len(close) < timeperiod THEN NaN("EMA")
    ELSE Number("EMA", 0, 0)

\* talib.stream.RSI: timeperiod differences are needed, so timeperiod + 1 values
stream_RSI(close, timeperiod) ==
    IF timeperiod < TALIB_MIN_PERIOD THEN BadParam("RSI")
    ELSE IF Len(close) < timeperiod + 1 THEN NaN("RSI")
    ELSE Number("RSI", 0, 0)

\* talib.stream.MACD: the slow average and then the signal average must be seeded
stream_MACD(close, fastperiod, slowperiod, signalperiod) ==
    IF Len(close) < slowperiod + signalperiod - 1
    THEN <<NaN("MACD"), NaN("MACD"), NaN("MACD")>>
    ELSE <<Number("MACD", 0, 0), Number("MACDSIGNAL", 0, 0), Number("MACDHIST", 0, 0)>>

\* talib.stream.OBV: the first value is the first volume, then each volume is
\* added when the close rises and subtracted when it falls
RECURSIVE ObvUpTo(_, _, _)
ObvUpTo(close, volume, i) ==
    IF i = 1 THEN volume[1]
    ELSE ObvUpTo(close, volume, i - 1)
         + (IF close[i] > close[i - 1] THEN volume[i]
            ELSE IF close[i] < close[i - 1] THEN 0 - volume[i]
            ELSE 0)

stream_OBV(close, volume) == Number("OBV", ObvUpTo(close, volume, Len(close)), 1)

isnan(value) == value.kind = "nan"

REQUIRED_CANDLE_FIELDS == {"open", "high", "low", "close", "volume"}

\* Settings.validate_periods_field on a list of integers
validate_periods_field(v) ==
    IF v = <<>> THEN "ValueError"
    ELSE IF \E i \in 1..Len(v) : v[i] < 1 THEN "ValueError"
    ELSE "ok"

\* Settings.validate_max_candles_field
validate_max_candles_field(v) == IF 1 <= v /\ v <= 10000 THEN "ok" ELSE "ValueError"

\* sorted(list(set(v))): the periods as a set
Periods(v) == {v[i] : i \in 1..Len(v)}

\* update_candles_in_state with a slip: nothing is evicted
update_candles_in_state_unbounded(candle, candles, settings) ==
    [candle |-> candle, candles |-> Append(candles, candle)]

\* update_candles_in_state: the candle is appended to the list of its pair and
\* the oldest one is dropped when the list is longer than max_candles_in_state;
\* the candle goes on
update_candles_in_state(candle, candles, settings) ==
    LET appended == Append(candles, candle) IN
    [candle |-> candle,
     candles |-> IF Len(appended) > settings.max_candles_in_state
                 THEN Tail(appended) ELSE appended]

\* the keys the indicator loop fills for a list of n candles
IndicatorKeys(n, settings) ==
    {<<"sma", p>> : p \in {q \in Periods(settings.sma_periods) : n >= q}}
    \cup {<<"ema", p>> : p \in {q \in Periods(settings.ema_periods) : n >= q}}
    \cup {<<"rsi", p>> : p \in {q \in Periods(settings.rsi_periods) : n >= q}}
    \cup (IF n >= MACD_MIN_CANDLES
          THEN {<<"macd", 7>>, <<"macdsignal", 7>>, <<"macdhist", 7>>} ELSE {})
    \cup {<<"obv">>}

\* the value each TA-Lib call gives for a key
IndicatorValue(key, close, volume) ==
    IF key[1] = "sma" THEN stream_SMA(close, key[2])
    ELSE IF key[1] = "ema" THEN stream_EMA(close, key[2])
    ELSE IF key[1] = "rsi" THEN stream_RSI(close, key[2])
    ELSE IF key[1] = "macd" THEN stream_MACD(close, MACD_FAST, MACD_SLOW, MACD_SIGNAL)[1]
    ELSE IF key[1] = "macdsignal"
         THEN stream_MACD(close, MACD_FAST, MACD_SLOW, MACD_SIGNAL)[2]
    ELSE IF key[1] = "macdhist" THEN stream_MACD(close, MACD_FAST, MACD_SLOW, MACD_SIGNAL)[3]
    ELSE stream_OBV(close, volume)

\* compute_technical_indicators with a slip: the candle is left out of the result
compute_technical_indicators_without_candle(candle, candles, settings) ==
    IF Len(candles) < 2 THEN candle
    ELSE IF \E field \in REQUIRED_CANDLE_FIELDS :
                \E i \in 1..Len(candles) : <<field>> \notin DOMAIN candles[i]
         THEN candle
    ELSE LET close == Column(candles, "close")
             volume == Column(candles, "volume")
             keys == IndicatorKeys(Len(candles), settings)
             indicators == [k \in keys |-> IndicatorValue(k, close, volume)]
         IN
         IF \E k \in keys : indicators[k].kind = "raise" THEN candle
         ELSE [k \in keys |-> IF isnan(indicators[k]) THEN NoneValue ELSE indicators[k]]

\* compute_technical_indicators on the candles list of the state.  With fewer
\* than 2 candles, with a candle that lacks a field or when a TA-Lib call
\* raises, the candle alone is returned; a NaN value is replaced by None under
\* its key
compute_technical_indicators(candle, candles, settings) ==
    IF Len(candles) < 2 THEN candle
    ELSE IF \E field \in REQUIRED_CANDLE_FIELDS :
                \E i \in 1..Len(candles) : <<field>> \notin DOMAIN candles[i]
         THEN candle
    ELSE LET close == Column(candles, "close")
             volume == Column(candles, "volume")
             keys == IndicatorKeys(Len(candles), settings)
             indicators == [k \in keys |-> IndicatorValue(k, close, volume)]
         IN
         IF \E k \in keys : indicators[k].kind = "raise" THEN candle
         ELSE Merge(candle,
                    [k \in keys |-> IF isnan(indicators[k]) THEN NoneValue
                                    ELSE indicators[k]])

\* the settings of a run: the defaults, and two small configurations
DefaultSettings ==
    [candle_seconds |-> 60, max_candles_in_state |-> 70,
     sma_periods |-> <<7, 14, 21, 60>>, ema_periods |-> <<7, 14, 21, 60>>,
     rsi_periods |-> <<7, 14, 21, 60>>]
ShortSettings ==
    [candle_seconds |-> 60, max_candles_in_state |-> 3,
     sma_periods |-> <<2, 3>>, ema_periods |-> <<2>>, rsi_periods |-> <<2>>]
PeriodOneSettings ==
    [candle_seconds |-> 60, max_candles_in_state |-> 2,
     sma_periods |-> <<1, 2>>, ema_periods |-> <<2>>, rsi_periods |-> <<2>>]
SettingsValues ==
    {s \in {DefaultSettings, ShortSettings, PeriodOneSettings} :
        /\ validate_max_candles_field(s.max_candles_in_state) = "ok"
        /\ validate_periods_field(s.sma_periods) = "ok"
        /\ validate_periods_field(s.ema_periods) = "ok"
        /\ validate_periods_field(s.rsi_periods) = "ok"}

TiPairs == {"BTC/USD", "ETH/USD"}

Candle(pair, close, volume, seconds, n) ==
    (<<"pair">> :> pair) @@ (<<"open">> :> close) @@ (<<"high">> :> close)
    @@ (<<"low">> :> close) @@ (<<"close">> :> close) @@ (<<"volume">> :> volume)
    @@ (<<"window_start_ms">> :> n * seconds * 1000)
    @@ (<<"window_end_ms">> :> (n + 1) * seconds * 1000)
    @@ (<<"candle_seconds">> :> seconds)

\* the candles a pair's list holds when the run starts: the service has
\* already consumed n candles of the pair
Buffered(pair, n) == [i \in 1..n |-> Candle(pair, 10 + (i % 3), 1 + (i % 2), 60, i)]
BufferedLengths(s) ==
    IF s = DefaultSettings THEN {0, 13, 25, 59, 69} ELSE {0}

\* the candles that may arrive
CandleCloses == {10, 12}
CandleVolumes == {1, 3}
CandleValues(n) ==
    {Candle("BTC/USD", c, v, 60, n) : c \in CandleCloses, v \in CandleVolumes}
    \cup {Candle("ETH/USD", 20, 5, 60, n), Candle("BTC/USD", 11, 2, 300, n)}

TiInit ==
    /\ ti_settings \in SettingsValues
    /\ \E n \in BufferedLengths(ti_settings) :
          ti_state = [p \in TiPairs |-> IF p = "BTC/USD" THEN Buffered(p, n) ELSE <<>>]
    /\ ti_topic = <<>>
    /\ ti_trace = <<>>

TiIdle ==
    /\ ti_settings = <<>>
    /\ ti_state = <<>>
    /\ ti_topic = <<>>
    /\ ti_trace = <<>>

\* run_technical_indicators_service on one candle of the candles topic: the
\* filter on candle_seconds, the state step, the indicators, the log line and
\* the produce
TiConsume(candle) ==
    /\ Len(ti_trace) < MaxCandles
    /\ LET pair == candle[<<"pair">>]
           passed == candle[<<"candle_seconds">>] = ti_settings.candle_seconds
           updated == update_candles_in_state(candle, ti_state[pair], ti_settings)
           value == compute_technical_indicators(updated.candle, updated.candles,
                                                 ti_settings)
           produced == IF passed THEN <<SdfUpdate(value, NoneValue)>> ELSE <<>>
       IN
       /\ ti_state' = IF passed THEN [ti_state EXCEPT ![pair] = updated.candles]
                      ELSE ti_state
       /\ ti_topic' = ti_topic \o produced
       /\ ti_trace' = Append(ti_trace,
                             [candle |-> candle, passed |-> passed,
                              before |-> ti_state[pair],
                              after |-> IF passed THEN updated.candles ELSE ti_state[pair],
                              produced |-> produced])
    /\ UNCHANGED ti_settings
    /\ UNCHANGED <<candleVars, validateVars, restVars, wsVars, predVars, extraVars>>

NextTi == \E candle \in CandleValues(100 + Len(ti_trace)) : TiConsume(candle)

----
(* Predictions service                                                         *)
(*                                                                             *)
(* A float is the record Number(fn, num, den), the value num/den: 1.02 is      *)
(* 102/100, 0.7 is 7/10.  An indicator record is a function from keys to       *)
(* values, as the technical indicators service produces it.                    *)

\* indicator records consumed by the service in one run
MaxIndicators == 2

Float(num, den) == Number("float", num, den)
Less(a, b) == a.num * b.den < b.num * a.den
LessEq(a, b) == a.num * b.den <= b.num * a.den
Times(a, b) == Float(a.num * b.num, a.den * b.den)

DEFAULT_RSI_VALUE == Float(50, 1)
RSI_OVERSOLD_THRESHOLD == Float(30, 1)
RSI_OVERBOUGHT_THRESHOLD == Float(70, 1)
DEFAULT_CLOSE_PRICE == 100
PRICE_INCREASE_MULTIPLIER == Float(102, 100)
PRICE_DECREASE_MULTIPLIER == Float(98, 100)
HIGH_CONFIDENCE_SCORE == Float(7, 10)
MEDIUM_CONFIDENCE_SCORE == Float(5, 10)
POSITIVE_SIGNAL_STRENGTH == Float(5, 10)
NEGATIVE_SIGNAL_STRENGTH == Float(0 - 5, 10)
NEUTRAL_SIGNAL_STRENGTH == Float(0, 1)
DUMMY_MODEL_NAME == "dummy_rsi_model"
DUMMY_MODEL_VERSION == "1.0.0"
DEFAULT_PREDICTION_HORIZON_MINUTES == 5
DUMMY_MODEL_FEATURES == <<"rsi_14", "close">>
DEFAULT_PREDICTION_TYPE == "price_direction"
REQUIRED_INDICATOR_FIELDS == {"pair", "close", "window_start_ms", "window_end_ms"}

\* indicators.get(key, default)
Get(indicators, key, default) == IF key \in DOMAIN indicators THEN indicators[key] ELSE default

\* float(x) of a number of the record
FloatOf(x) == Float(x, 1)

ModelOutput(prediction_value, confidence, signal_strength) ==
    [prediction_value |-> prediction_value,
     confidence_score |-> confidence,
     model_name |-> DUMMY_MODEL_NAME,
     model_version |-> DUMMY_MODEL_VERSION,
     prediction_horizon_minutes |-> DEFAULT_PREDICTION_HORIZON_MINUTES,
     features_used |-> DUMMY_MODEL_FEATURES,
     signal_strength |-> signal_strength,
     prediction_type |-> DEFAULT_PREDICTION_TYPE]

NoOutput == ModelOutput(Float(0, 1), Float(0, 1), Float(0, 1))

\* dummy_model_prediction with a slip: the thresholds themselves count as
\* oversold and overbought
dummy_model_prediction_inclusive(indicators) ==
    LET rsi_14 == Get(indicators, <<"rsi", 14>>, DEFAULT_RSI_VALUE)
        close == FloatOf(Get(indicators, <<"close">>, DEFAULT_CLOSE_PRICE))
    IN
    IF rsi_14.kind # "number" THEN [raised |-> "TypeError", output |-> NoOutput]
    ELSE IF LessEq(rsi_14, RSI_OVERSOLD_THRESHOLD)
    THEN [raised |-> "none",
          output |-> ModelOutput(Times(close, PRICE_INCREASE_MULTIPLIER),
                                 HIGH_CONFIDENCE_SCORE, POSITIVE_SIGNAL_STRENGTH)]
    ELSE IF LessEq(RSI_OVERBOUGHT_THRESHOLD, rsi_14)
    THEN [raised |-> "none",
          output |-> ModelOutput(Times(close, PRICE_DECREASE_MULTIPLIER),
                                 HIGH_CONFIDENCE_SCORE, NEGATIVE_SIGNAL_STRENGTH)]
    ELSE [raised |-> "none",
          output |-> ModelOutput(close, MEDIUM_CONFIDENCE_SCORE, NEUTRAL_SIGNAL_STRENGTH)]

\* dummy_model_prediction.  rsi_14 is compared with the thresholds: a None
\* under the key rsi_14 raises TypeError
dummy_model_prediction(indicators) ==
    LET rsi_14 == Get(indicators, <<"rsi", 14>>, DEFAULT_RSI_VALUE)
        close == FloatOf(Get(indicators, <<"close">>, DEFAULT_CLOSE_PRICE))
    IN
    IF rsi_14.kind # "number" THEN [raised |-> "TypeError", output |-> NoOutput]
    ELSE IF Less(rsi_14, RSI_OVERSOLD_THRESHOLD)
    THEN [raised |-> "none",
          output |-> ModelOutput(Times(close, PRICE_INCREASE_MULTIPLIER),
                                 HIGH_CONFIDENCE_SCORE, POSITIVE_SIGNAL_STRENGTH)]
    ELSE IF Less(RSI_OVERBOUGHT_THRESHOLD, rsi_14)
    THEN [raised |-> "none",
          output |-> ModelOutput(Times(close, PRICE_DECREASE_MULTIPLIER),
                                 HIGH_CONFIDENCE_SCORE, NEGATIVE_SIGNAL_STRENGTH)]
    ELSE [raised |-> "none",
          output |-> ModelOutput(close, MEDIUM_CONFIDENCE_SCORE, NEUTRAL_SIGNAL_STRENGTH)]

\* the validators with a slip: the prediction value is not checked
PredictionInvalid_any_value(model_output) ==
    \/ Less(model_output.confidence_score, Float(0, 1))
    \/ Less(Float(1, 1), model_output.confidence_score)
    \/ Less(model_output.signal_strength, Float(0 - 1, 1))
    \/ Less(Float(1, 1), model_output.signal_strength)
    \/ model_output.prediction_horizon_minutes <= 0
    \/ model_output.features_used = <<>>
    \/ model_output.model_name = ""
    \/ model_output.model_version = ""

\* the field validators and the model validator of Prediction
PredictionInvalid(model_output) ==
    \/ LessEq(model_output.prediction_value, Float(0, 1))
    \/ Less(model_output.confidence_score, Float(0, 1))
    \/ Less(Float(1, 1), model_output.confidence_score)
    \/ Less(model_output.signal_strength, Float(0 - 1, 1))
    \/ Less(Float(1, 1), model_output.signal_strength)
    \/ model_output.prediction_horizon_minutes <= 0
    \/ model_output.features_used = <<>>
    \/ model_output.model_name = ""
    \/ model_output.model_version = ""

\* Prediction.from_indicators: whatever the construction raises is raised
\* again as PredictionError
Prediction_from_indicators(indicators, model_output, now) ==
    IF <<"pair">> \notin DOMAIN indicators \/ PredictionInvalid(model_output)
    THEN [raised |-> "PredictionError", prediction |-> <<>>]
    ELSE [raised |-> "none",
          prediction |->
              [pair |-> indicators[<<"pair">>],
               prediction_timestamp_ms |-> now,
               prediction_value |-> model_output.prediction_value,
               confidence_score |-> model_output.confidence_score,
               model_name |-> model_output.model_name,
               model_version |-> model_output.model_version,
               prediction_horizon_minutes |-> model_output.prediction_horizon_minutes,
               features_used |-> model_output.features_used,
               input_indicators |-> indicators,
               schema_version |-> "1.0",
               signal_strength |-> model_output.signal_strength,
               prediction_type |-> model_output.prediction_type]]

\* Prediction.to_dict: the three floats become strings
Prediction_to_dict(prediction) ==
    [prediction EXCEPT !.prediction_value = ToStr(@),
                       !.confidence_score = ToStr(@),
                       !.signal_strength = ToStr(@)]

\* process_indicators_to_prediction: the prediction as a dict, or {} when the
\* model or the construction raised (step says which, for the log)
process_indicators_to_prediction(indicators, now) ==
    LET model == dummy_model_prediction(indicators)
        built == Prediction_from_indicators(indicators, model.output, now)
    IN
    IF model.raised # "none"
    THEN [value |-> <<>>, step |-> "model", model_output |-> NoOutput]
    ELSE IF built.raised # "none"
    THEN [value |-> <<>>, step |-> "construction", model_output |-> model.output]
    ELSE [value |-> Prediction_to_dict(built.prediction), step |-> "none",
          model_output |-> model.output]

\* the filter on empty predictions with a slip: every value passes
NonEmpty_always(value) == TRUE

\* lambda x: len(x) > 0
NonEmpty(value) == DOMAIN value # {}

\* validate_indicators_optional: the log level written
validate_indicators_optional(indicators) ==
    IF \E field \in REQUIRED_INDICATOR_FIELDS : <<field>> \notin DOMAIN indicators
    THEN "warning" ELSE "debug"

PredSettings == [candle_seconds |-> 60]

\* the indicator records that may arrive
RsiValues == {Number("RSI", 29, 1), Number("RSI", 299, 10), Number("RSI", 30, 1),
              Number("RSI", 50, 1), Number("RSI", 70, 1), Number("RSI", 701, 10),
              NoneValue}
CloseValues == {0, 100, 250}

IndicatorRecord(pair, seconds, n) ==
    (<<"pair">> :> pair) @@ (<<"window_start_ms">> :> n * seconds * 1000)
    @@ (<<"window_end_ms">> :> (n + 1) * seconds * 1000)
    @@ (<<"candle_seconds">> :> seconds)

WithoutKey(record, key) == [k \in DOMAIN record \ {key} |-> record[k]]

IndicatorValues(n) ==
    {IndicatorRecord("BTC/USD", 60, n) @@ (<<"close">> :> c) @@ (<<"rsi", 14>> :> r) :
        c \in CloseValues, r \in RsiValues}
    \cup {IndicatorRecord("BTC/USD", 60, n) @@ (<<"close">> :> c) : c \in CloseValues}
    \cup {IndicatorRecord("BTC/USD", 60, n) @@ (<<"rsi", 14>> :> r) : r \in RsiValues}
    \cup {IndicatorRecord("BTC/USD", 300, n) @@ (<<"close">> :> 100),
          WithoutKey(IndicatorRecord("BTC/USD", 60, n), <<"pair">>) @@ (<<"close">> :> 100)}

PredInit ==
    /\ pred_topic = <<>>
    /\ pred_trace = <<>>

PredIdle ==
    /\ pred_topic = <<>>
    /\ pred_trace = <<>>

\* run_predictions_service on one record of the technical_indicators topic:
\* the optional validation, the filter on candle_seconds, the prediction, the
\* filter on empty predictions, the log line and the produce
PredConsume(indicators) ==
    /\ Len(pred_trace) < MaxIndicators
    /\ LET log == validate_indicators_optional(indicators)
           passed == SdfUpdate(indicators, log)[<<"candle_seconds">>]
                         = PredSettings.candle_seconds
           result == process_indicators_to_prediction(indicators, ClockMs)
           produced == IF passed /\ NonEmpty(result.value)
                       THEN <<SdfUpdate(result.value, NoneValue)>> ELSE <<>>
       IN
       /\ pred_topic' = pred_topic \o produced
       /\ pred_trace' = Append(pred_trace,
                               [indicators |-> indicators, passed |-> passed,
                                step |-> IF passed THEN result.step ELSE "filtered",
                                model_output |-> result.model_output,
                                produced |-> produced])
    /\ UNCHANGED <<candleVars, validateVars, restVars, wsVars, tiVars, extraVars>>

NextPred == \E indicators \in IndicatorValues(Len(pred_trace)) : PredConsume(indicators)

----
(* init_candle and update_candle taken alone: any sequence of trades, valid   *)
(* or not, is given to the reducer of one window                               *)

\* trades given to the reducer in one run
MaxReduced == 3

ReducedPairs == {BTCUSD, <<>>}
ReducedPrices == {0, 100, MaxPrice + 1}
ReducedQuantities == {-1, 2}
ReducedTimestamps == {ClockMs, ClockMs + FutureSkewMs + 1}
ReducedTrades ==
    [product_id : ReducedPairs, price : ReducedPrices, quantity : ReducedQuantities,
     timestamp_ms : ReducedTimestamps]

ReducerInit ==
    /\ r_candle = <<>>
    /\ r_trades = <<>>
    /\ r_logged = <<>>

ReducerIdle ==
    /\ r_candle = <<>>
    /\ r_trades = <<>>
    /\ r_logged = <<>>

\* one call of init_candle or update_candle
ReduceTrade(trade) ==
    /\ Len(r_trades) < MaxReduced
    /\ r_candle' = <<Reduce(r_candle, trade)>>
    /\ r_trades' = Append(r_trades, trade)
    /\ r_logged' = Append(r_logged, ValidationLog(trade, ClockMs, r_candle = <<>>))
    /\ UNCHANGED <<candleVars, validateVars, restVars, wsVars, tiVars, predVars, startVars>>

NextReducer == \E trade \in ReducedTrades : ReduceTrade(trade)

----
(* Start-up of the services: where the consumer starts, and the sink table     *)
(*                                                                             *)
(* A start-up is one run of a service's main up to app.run().  The statements  *)
(* recorded are those on the target table: the existence check, CREATE TABLE   *)
(* and the verification; the informational queries before them are read-only  *)
(* and guarded by their own try/except.                                        *)

\* start-ups in one run
MaxStartups == 3

ProcessingModes == {"live", "historical"}
TableNames == {"technical_indicators", "indicators_v2"}
\* what goes wrong with the sink store during a start-up
SinkFailures == {"none", "connectivity", "connect", "check", "ddl", "verify"}

\* auto_offset_reset of a quixstreams Application that is given none
APPLICATION_DEFAULT_OFFSET_RESET == "latest"

\* Application(...) of run_candles_service
candles_auto_offset_reset(processing_mode) == APPLICATION_DEFAULT_OFFSET_RESET

\* Application(...) of run_technical_indicators_service
technical_indicators_auto_offset_reset(processing_mode) == "earliest"

\* Application(**app_config) of run_predictions_service
predictions_auto_offset_reset(processing_mode) ==
    IF processing_mode = "historical" THEN "earliest"
    ELSE APPLICATION_DEFAULT_OFFSET_RESET

test_risingwave_connectivity(failure) == failure # "connectivity"

\* the outcome of create_table_in_risingwave
TableOutcome(result, raised, statements, created) ==
    [result |-> result, raised |-> raised, statements |-> statements, created |-> created]

\* create_table_in_risingwave with slips: the table is created without a look
\* at information_schema.tables
create_table_in_risingwave_unchecked(table_name, tables, failure) ==
    IF failure = "connect" THEN TableOutcome(FALSE, FALSE, <<>>, FALSE)
    ELSE IF failure = "ddl" \/ table_name \in tables
    THEN TableOutcome(FALSE, FALSE, <<"CREATE TABLE">>, FALSE)
    ELSE IF failure = "verify"
    THEN TableOutcome(FALSE, FALSE, <<"CREATE TABLE", "SELECT columns">>, TRUE)
    ELSE TableOutcome(TRUE, FALSE, <<"CREATE TABLE", "SELECT columns">>, TRUE)

\* ... an error of the sink store is not caught
create_table_in_risingwave_raises(table_name, tables, failure) ==
    IF failure = "connect" THEN TableOutcome(FALSE, TRUE, <<>>, FALSE)
    ELSE IF failure = "check" THEN TableOutcome(FALSE, TRUE, <<"SELECT EXISTS">>, FALSE)
    ELSE IF table_name \in tables THEN TableOutcome(TRUE, FALSE, <<"SELECT EXISTS">>, FALSE)
    ELSE IF failure = "ddl"
    THEN TableOutcome(FALSE, TRUE, <<"SELECT EXISTS", "CREATE TABLE">>, FALSE)
    ELSE IF failure = "verify"
    THEN TableOutcome(FALSE, TRUE, <<"SELECT EXISTS", "CREATE TABLE", "SELECT columns">>, TRUE)
    ELSE TableOutcome(TRUE, FALSE, <<"SELECT EXISTS", "CREATE TABLE", "SELECT columns">>, TRUE)

\* create_table_in_risingwave: connect, look the table up, create it when it
\* is not there, verify; every error is caught and gives False
create_table_in_risingwave(table_name, tables, failure) ==
    IF failure = "connect" THEN TableOutcome(FALSE, FALSE, <<>>, FALSE)
    ELSE IF failure = "check" THEN TableOutcome(FALSE, FALSE, <<"SELECT EXISTS">>, FALSE)
    ELSE IF table_name \in tables THEN TableOutcome(TRUE, FALSE, <<"SELECT EXISTS">>, FALSE)
    ELSE IF failure = "ddl"
    THEN TableOutcome(FALSE, FALSE, <<"SELECT EXISTS", "CREATE TABLE">>, FALSE)
    ELSE IF failure = "verify"
    THEN TableOutcome(FALSE, FALSE, <<"SELECT EXISTS", "CREATE TABLE", "SELECT columns">>, TRUE)
    ELSE TableOutcome(TRUE, FALSE, <<"SELECT EXISTS", "CREATE TABLE", "SELECT columns">>, TRUE)

\* main of the technical indicators service up to the stream processing
technical_indicators_main(table_name, tables, failure) ==
    IF ~test_risingwave_connectivity(failure)
    THEN TableOutcome(FALSE, FALSE, <<>>, FALSE)
    ELSE create_table_in_risingwave(table_name, tables, failure)

\* what a start-up leaves in the history
StartRecord(service, processing_mode, auto_offset_reset, table_name, existed, failure, outcome) ==
    [service |-> service, processing_mode |-> processing_mode,
     auto_offset_reset |-> auto_offset_reset, table_name |-> table_name,
     existed |-> existed, failure |-> failure, table_created |-> outcome.result,
     statements |-> outcome.statements, created |-> outcome.created,
     stream_started |-> ~outcome.raised]

NoSink == TableOutcome(FALSE, FALSE, <<>>, FALSE)

StartInit ==
    /\ sink_tables = {}
    /\ start_trace = <<>>

StartIdle ==
    /\ sink_tables = {}
    /\ start_trace = <<>>

\* run_candles_service up to app.run(), the pipeline being in processing_mode
StartCandles(processing_mode) ==
    /\ Len(start_trace) < MaxStartups
    /\ start_trace' = Append(start_trace,
          StartRecord("candles", processing_mode, candles_auto_offset_reset(processing_mode),
                      "", FALSE, "none", NoSink))
    /\ UNCHANGED sink_tables
    /\ UNCHANGED <<candleVars, validateVars, restVars, wsVars, tiVars, predVars, reducerVars>>

\* main of the technical indicators service up to app.run()
StartTechnicalIndicators(processing_mode, table_name, failure) ==
    /\ Len(start_trace) < MaxStartups
    /\ LET outcome == technical_indicators_main(table_name, sink_tables, failure) IN
       /\ start_trace' = Append(start_trace,
             StartRecord("technical_indicators", processing_mode,
                         technical_indicators_auto_offset_reset(processing_mode),
                         table_name, table_name \in sink_tables, failure, outcome))
       /\ sink_tables' = IF outcome.created THEN sink_tables \cup {table_name}
                         ELSE sink_tables
    /\ UNCHANGED <<candleVars, validateVars, restVars, wsVars, tiVars, predVars, reducerVars>>

\* run_predictions_service up to app.run()
StartPredictions(processing_mode) ==
    /\ Len(start_trace) < MaxStartups
    /\ start_trace' = Append(start_trace,
          StartRecord("predictions", processing_mode,
                      predictions_auto_offset_reset(processing_mode), "", FALSE, "none",
                      NoSink))
    /\ UNCHANGED sink_tables
    /\ UNCHANGED <<candleVars, validateVars, restVars, wsVars, tiVars, predVars, reducerVars>>

NextStart ==
    \/ \E processing_mode \in ProcessingModes : StartCandles(processing_mode)
    \/ \E processing_mode \in ProcessingModes : \E table_name \in TableNames :
          \E failure \in SinkFailures :
             StartTechnicalIndicators(processing_mode, table_name, failure)
    \/ \E processing_mode \in ProcessingModes : StartPredictions(processing_mode)

----
(* Specifications *)

\* the candles service
ExtraIdle == ReducerIdle /\ StartIdle
ServicesIdle == WsIdle /\ TiIdle /\ PredIdle /\ ExtraIdle
Init == CandlesInit /\ ValidateIdle /\ RestIdle /\ ServicesIdle
Spec == Init /\ [][NextCandles]_vars

\* TradeMessage.from_dict on one trade
InitValidate == CandlesIdle /\ ValidateInit /\ RestIdle /\ ServicesIdle
SpecValidate == InitValidate /\ [][NextValidate]_vars

\* the historical ingestion against any exchange
InitRest == CandlesIdle /\ ValidateIdle /\ RestInit /\ ServicesIdle
SpecRest == InitRest /\ [][NextRest]_vars

\* the historical ingestion against an exchange that always answers in the end
\* and whose cursors advance
SpecRestFair == InitRest /\ [][NextRestFair]_vars /\ WF_vars(GetTradesAdvance)

\* the live ingestion, whatever the exchange sends
InitWs == CandlesIdle /\ ValidateIdle /\ RestIdle /\ WsInit /\ TiIdle /\ PredIdle /\ ExtraIdle
SpecWs == InitWs /\ [][NextWs]_vars

\* the technical indicators service
InitTi == CandlesIdle /\ ValidateIdle /\ RestIdle /\ WsIdle /\ TiInit /\ PredIdle /\ ExtraIdle
SpecTi == InitTi /\ [][NextTi]_vars

\* the predictions service
InitPred == CandlesIdle /\ ValidateIdle /\ RestIdle /\ WsIdle /\ TiIdle /\ PredInit /\ ExtraIdle
SpecPred == InitPred /\ [][NextPred]_vars

\* init_candle and update_candle on any sequence of trades
InitReducer == CandlesIdle /\ ValidateIdle /\ RestIdle /\ WsIdle /\ TiIdle /\ PredIdle
                   /\ ReducerInit /\ StartIdle
SpecReducer == InitReducer /\ [][NextReducer]_vars

\* start-ups of the services against one sink store
InitStart == CandlesIdle /\ ValidateIdle /\ RestIdle /\ WsIdle /\ TiIdle /\ PredIdle
                 /\ ReducerIdle /\ StartInit
SpecStart == InitStart /\ [][NextStart]_vars

----
(* Properties of the candles service *)

FoldedPrices(w) == [i \in 1..Len(folded[w]) |-> folded[w][i].price]
FoldedQuantities(w) == [i \in 1..Len(folded[w]) |-> folded[w][i].quantity]
FoldedTimes(w) == [i \in 1..Len(folded[w]) |-> folded[w][i].timestamp_ms]

OpenWindows == {w \in DOMAIN windows : windows[w] # <<>>}
Emitted == {candles_topic[i] : i \in DOMAIN candles_topic}

\* C1: the candle of a window is the fold of the trades put into it, in arrival
\* order: high is the maximum and low the minimum of their prices, close is the
\* price of the last one and volume the sum of their quantities.
C1_CandleIsFoldOfTrades ==
    \A w \in OpenWindows :
        LET c == windows[w][1] IN
        /\ folded[w] # <<>>
        /\ c.high = SeqMax(FoldedPrices(w))
        /\ c.low = SeqMin(FoldedPrices(w))
        /\ c.close = folded[w][Len(folded[w])].price
        /\ c.volume = SeqSum(FoldedQuantities(w))

\* three trades at prices 100, 120, 90 were folded into one window
C1_Witness ==
    \E w \in OpenWindows :
        /\ FoldedPrices(w) = <<100, 120, 90>>
        /\ FoldedQuantities(w) = <<2, 2, 2>>
        /\ windows[w][1] = [open |-> 100, high |-> 120, low |-> 90, close |-> 90,
                            volume |-> 6, pair |-> BTCUSD]

\* C2, as claimed: the open of every emitted candle is the price of a trade with
\* the smallest timestamp_ms among the trades folded into its window, whatever
\* the order of arrival.
C2_OpenIsEarliestTrade ==
    candles_topic # <<>> =>
        LET r == candles_topic[Len(candles_topic)]
            w == r.window_start_ms
        IN \E i \in DOMAIN folded[w] :
              /\ folded[w][i].price = r.open
              /\ FoldedTimes(w)[i] = SeqMin(FoldedTimes(w))

\* C2, amended: the open of every emitted candle is the price of the first trade
\* folded into its window in arrival order; it is the price of a trade with the
\* smallest timestamp_ms when the trades of the window arrived in timestamp order.
C2_OpenIsFirstArrival ==
    /\ \A r \in Emitted : r.open = folded[r.window_start_ms][1].price
    /\ \A w \in OpenWindows :
          /\ windows[w][1].open = folded[w][1].price
          /\ (\A i, j \in DOMAIN folded[w] : i <= j => FoldedTimes(w)[i] <= FoldedTimes(w)[j])
                => FoldedTimes(w)[1] = SeqMin(FoldedTimes(w))

\* a window whose trades arrived out of timestamp order, the later one first
C2_Witness ==
    \E w \in OpenWindows :
        /\ Len(folded[w]) >= 2
        /\ FoldedTimes(w)[1] > FoldedTimes(w)[2]
        /\ folded[w][1].price # folded[w][2].price
        /\ candles_topic # <<>>
        /\ candles_topic[Len(candles_topic)].window_start_ms = w

\* C3: in every candle state of the reducer and in every emitted candle,
\* low <= min(open, close) <= max(open, close) <= high.
C3_OhlcOrdered ==
    /\ \A w \in OpenWindows :
          LET c == windows[w][1] IN
          /\ c.low <= Min2(c.open, c.close)
          /\ Min2(c.open, c.close) <= Max2(c.open, c.close)
          /\ Max2(c.open, c.close) <= c.high
    /\ \A r \in Emitted :
          /\ r.low <= Min2(r.open, r.close)
          /\ Max2(r.open, r.close) <= r.high

\* a candle updated twice whose open lies strictly between its low and its high
C3_Witness ==
    \E w \in OpenWindows :
        LET c == windows[w][1] IN
        /\ Len(folded[w]) >= 3
        /\ c.low < c.open /\ c.open < c.high /\ c.close < c.high

\* C4, as claimed: every candle produced to the candles topic has volume >= 0.
C4_VolumeNonNegative == \A r \in Emitted : r.volume >= 0

\* C5: a trade is folded only into the window [floor(t/W)*W, floor(t/W)*W + W)
\* of its payload timestamp_ms t, and every emitted candle has a window start
\* that is a multiple of W and a window end W later, W = candle_seconds * 1000.
C5_WindowOfPayloadTime ==
    /\ \A w \in DOMAIN folded : \A i \in DOMAIN folded[w] :
          LET t == folded[w][i].timestamp_ms IN
          /\ w = (t \div (candle_seconds * 1000)) * (candle_seconds * 1000)
          /\ w <= t /\ t < w + candle_seconds * 1000
    /\ \A r \in Emitted :
          /\ r.window_start_ms % (r.candle_seconds * 1000) = 0
          /\ r.window_end_ms - r.window_start_ms = r.candle_seconds * 1000
          /\ folded[r.window_start_ms] # <<>>

\* trades of two windows were folded, one of them inside its window, and each
\* trade's record timestamp lies in another window than its payload time
C5_Witness ==
    /\ \E r \in Emitted : r.window_start_ms = 120000 /\ r.window_end_ms = 180000
    /\ \E i \in DOMAIN folded[60000] :
          /\ folded[60000][i].timestamp_ms = 80000
          /\ WindowStart(RecordTimestamp(0)) # 60000

\* C6, as claimed: every record produced to the candles topic carries
\* schema_version and has open, high, low, close and volume as strings.
C6_EmittedIsFormatted ==
    \A r \in Emitted :
        /\ "schema_version" \in DOMAIN r
        /\ r.open[1] = "str" /\ r.high[1] = "str" /\ r.low[1] = "str"
        /\ r.close[1] = "str" /\ r.volume[1] = "str"
        /\ {"pair", "window_start_ms", "window_end_ms", "candle_seconds"} \subseteq DOMAIN r

\* C7: output validation never stops the stream: no exception leaves
\* validate_and_format_candle, and a candle that breaks a validation rule is
\* produced as the original, unvalidated record.
C7_ValidationNeverBlocks ==
    /\ ~crashed
    /\ candles_topic # <<>> =>
          LET r == candles_topic[Len(candles_topic)]
              w == r.window_start_ms
              original == AggregationRecord(w, w + W, windows[w][1])
          IN CandleOutputError(original) # "none" => r = original

\* a candle with a negative volume and one with a non-positive price were produced
C7_Witness ==
    /\ ~crashed
    /\ \E r \in Emitted : r.volume < 0 /\ r.low > 0
    /\ \E r \in Emitted : r.low <= 0 /\ r.volume >= 0

----
(* Properties of TradeMessage.from_dict *)

Blank(p) == \A i \in DOMAIN p : p[i] = " "

\* C8, as claimed: a trade is rejected if and only if price <= 0, or
\* quantity < 0, or the pair is empty, or timestamp_ms is outside
\* [now - 24h, now + 60s].
C8_RejectedIffFourRules ==
    v_result # "pending" =>
        (v_result = "InvalidTradeError" <=>
            \/ v_trade.price <= 0
            \/ v_trade.quantity < 0
            \/ v_trade.product_id = <<>>
            \/ v_trade.timestamp_ms < v_now - 86400000
            \/ v_trade.timestamp_ms > v_now + 60000)

\* C8, amended: a trade is rejected if and only if price <= 0 or
\* price > 10,000,000, or quantity < 0 or quantity > 1,000,000,000, or the pair is
\* empty or blank, or timestamp_ms is outside [now - 24h, now + 60s].
C8_RejectedIffRulesAndLimits ==
    v_result # "pending" =>
        (v_result = "InvalidTradeError" <=>
            \/ v_trade.price <= 0 \/ v_trade.price > 10000000
            \/ v_trade.quantity < 0 \/ v_trade.quantity > 1000000000
            \/ Blank(v_trade.product_id)
            \/ v_trade.timestamp_ms < v_now - 86400000
            \/ v_trade.timestamp_ms > v_now + 60000)

\* a trade over the price limit, in order otherwise, was rejected
C8_Witness ==
    /\ v_result = "InvalidTradeError"
    /\ v_trade.price > 10000000
    /\ v_trade.quantity = 1
    /\ v_trade.product_id = BTCUSD
    /\ v_trade.timestamp_ms = v_now

----
(* Properties of the historical ingestion *)

AllPairs == 0..(Len(product_ids) - 1)

\* C9, as claimed: after a successful round that does not finish the pair, the
\* next since is result.last of the response; and every successful round
\* returns one Trade per row of its response, in the order of the rows.
C9_NextSinceIsLast ==
    /\ calls = "ok" => since_timestamp_ns = response_last[1]
    /\ calls \in {"ok", "ok_next", "ok_done"} =>
          /\ Len(returned) = Len(raw_rows)
          /\ \A i \in DOMAIN raw_rows :
                returned[i] = [product_id |-> request[1].pair, price |-> raw_rows[i][1],
                               quantity |-> raw_rows[i][2],
                               timestamp_ms |-> raw_rows[i][3] * 1000]

\* C10: against an exchange that always answers in the end and whose cursors
\* advance up to the present, every pair meets since > now - 10^9 and is_done
\* becomes true.
C10_IngestionTerminates == <>(is_done /\ finished = AllPairs)

\* two pairs were ingested to the end
C10_Witness ==
    /\ is_done
    /\ Len(product_ids) = 2
    /\ finished = {0, 1}
    /\ current_product_index = 2

----
(* Live ingestion *)

LastFrame == ws_frames[Len(ws_frames)]

\* a frame of the trade channel whose elements all hold the four keys
WellFormedTradeFrame(frame) ==
    /\ ~frame.heartbeat
    /\ frame.json.type = "object"
    /\ "data" \in DOMAIN frame.json.value
    /\ frame.json.value.data.type = "list"
    /\ \A i \in 1..Len(frame.json.value.data.items) :
          ElementKeys \subseteq DOMAIN frame.json.value.data.items[i]

\* a heartbeat, a text that is not JSON, a JSON object without data
SkippedFrame(frame) ==
    \/ frame.heartbeat
    \/ frame.json.type = "invalid"
    \/ frame.json.type = "object" /\ "data" \notin DOMAIN frame.json.value

\* the elements of the well-formed trade frames, in the order received
RECURSIVE ElementsReceived(_)
ElementsReceived(frames) ==
    IF frames = <<>> THEN <<>>
    ELSE (IF WellFormedTradeFrame(frames[1]) THEN frames[1].json.value.data.items ELSE <<>>)
         \o ElementsReceived(Tail(frames))

TradeIsOfElement(trade, element) ==
    /\ trade.product_id = element.symbol
    /\ trade.price = element.price
    /\ trade.quantity = element.qty
    /\ trade.timestamp_ms = element.timestamp[2]

\* C11: get_trades returns one Trade per element of a trade frame's data array,
\* in array order, and so the trades of each pair are emitted in the order the
\* exchange sent them
C11_TradePerElementInOrder ==
    /\ (ws_frames # <<>> /\ WellFormedTradeFrame(LastFrame)) =>
          LET items == LastFrame.json.value.data.items IN
          /\ ws_outcome = "returned"
          /\ Len(ws_returned) = Len(items)
          /\ \A i \in 1..Len(items) : TradeIsOfElement(ws_returned[i], items[i])
    /\ \A pair \in {WsProductIds[i] : i \in 1..Len(WsProductIds)} :
          LET sent == SelectSeq(ElementsReceived(ws_frames), LAMBDA e : e.symbol = pair)
              emitted == SelectSeq(ws_emitted, LAMBDA t : t.product_id = pair)
          IN
          /\ Len(emitted) = Len(sent)
          /\ \A i \in 1..Len(sent) : TradeIsOfElement(emitted[i], sent[i])

\* two trade frames with a heartbeat between them were read, five trades came out
C11_Witness ==
    /\ Len(ws_frames) = 3
    /\ ws_frames[1] = TradeFrame(<<ElementC, ElementB, ElementA>>)
    /\ ws_frames[2] = HeartbeatFrame
    /\ ws_frames[3] = TradeFrame(<<ElementA, ElementC>>)
    /\ Len(ws_emitted) = 5

\* C12: a heartbeat frame, a frame that is not JSON and a frame without data
\* each make get_trades return the empty list without raising; the connection
\* is kept and exactly one frame was taken from it, so the next call reads on
C12_SkippedFrameReturnsEmpty ==
    (ws_frames # <<>> /\ SkippedFrame(LastFrame)) =>
        /\ ws_outcome = "returned"
        /\ ws_returned = <<>>
        /\ ws_client = 1
        /\ ws_received = 2 * Len(WsProductIds) + Len(ws_frames)

\* the three kinds of skipped frame were read one after the other
C12_Witness ==
    /\ ws_frames = <<HeartbeatFrame, InvalidJsonFrame, NoDataFrame>>
    /\ ws_outcome = "returned"
    /\ ws_returned = <<>>

\* C13: whatever a received message holds, no exception escapes get_trades
C13_NoExceptionFromContent == ws_outcome \in {"none", "returned"}

----
(* Technical indicators service *)

RECURSIVE Produced(_)
Produced(trace) ==
    IF trace = <<>> THEN <<>> ELSE trace[1].produced \o Produced(Tail(trace))

\* C14: a candle of another candle_seconds produces nothing; a candle of the
\* configured candle_seconds produces exactly one record, which holds every
\* field of the candle unchanged
C14_OneRecordPerMatchingCandle ==
    /\ ti_topic = Produced(ti_trace)
    /\ \A i \in 1..Len(ti_trace) :
          LET e == ti_trace[i] IN
          IF e.candle[<<"candle_seconds">>] = ti_settings.candle_seconds
          THEN /\ Len(e.produced) = 1
               /\ \A k \in DOMAIN e.candle :
                     k \in DOMAIN e.produced[1] /\ e.produced[1][k] = e.candle[k]
          ELSE e.produced = <<>>

\* a first candle (fewer than 2 buffered), a second one whose computation
\* fails on the period 1, and a candle of another candle_seconds
C14_Witness ==
    /\ ti_settings = PeriodOneSettings
    /\ Len(ti_trace) = 3
    /\ ti_trace[1].passed /\ Len(ti_trace[1].after) = 1
    /\ ti_trace[2].passed /\ Len(ti_trace[2].after) = 2
    /\ ti_trace[2].produced = <<ti_trace[2].candle>>
    /\ ~ti_trace[3].passed
    /\ Len(ti_topic) = 2

C16_PresentIffEnoughCandles ==
    \A i \in 1..Len(ti_trace) :
        LET e == ti_trace[i] IN
        e.passed =>
            /\ \A p \in Periods(ti_settings.sma_periods) :
                  (<<"sma", p>> \in DOMAIN e.produced[1]) <=> (Len(e.after) >= p)
            /\ \A k \in {<<"macd", 7>>, <<"macdsignal", 7>>, <<"macdhist", 7>>} :
                  (k \in DOMAIN e.produced[1]) <=> (Len(e.after) >= 26)

\* C17: an indicator whose computation gives NaN has no key in the record
C17_NaNIsOmitted ==
    \A i \in 1..Len(ti_trace) :
        LET e == ti_trace[i] IN
        e.passed =>
            \A k \in IndicatorKeys(Len(e.after), ti_settings) :
                isnan(IndicatorValue(k, Column(e.after, "close"), Column(e.after, "volume")))
                    => k \notin DOMAIN e.produced[1]

\* the cumulative signed volume, from 0 at the first candle
RECURSIVE ObvFromZero(_, _, _)
ObvFromZero(close, volume, i) ==
    IF i = 1 THEN 0
    ELSE ObvFromZero(close, volume, i - 1)
         + (IF close[i] > close[i - 1] THEN volume[i]
            ELSE IF close[i] < close[i - 1] THEN 0 - volume[i]
            ELSE 0)

\* C18: the obv of a record is the cumulative signed volume of the list,
\* starting from 0 at its first candle
C18_ObvStartsAtZero ==
    \A i \in 1..Len(ti_trace) :
        LET e == ti_trace[i] IN
        (e.passed /\ <<"obv">> \in DOMAIN e.produced[1]) =>
            /\ e.produced[1][<<"obv">>].kind = "number"
            /\ e.produced[1][<<"obv">>].num =
                   e.produced[1][<<"obv">>].den
                       * ObvFromZero(Column(e.after, "close"), Column(e.after, "volume"),
                                     Len(e.after))

----
(* Predictions service *)

\* the float v equals n / d
IsRatio(v, n, d) == v.num * d = n * v.den

\* C19: the reference model gives close * 1.02, 0.7 and +0.5 when rsi_14 < 30,
\* close * 0.98, 0.7 and -0.5 when rsi_14 > 70, and close, 0.5 and 0 for every
\* other value, 30 and 70 included
C19_ThresholdPolicy ==
    \A i \in 1..Len(pred_trace) :
        LET e == pred_trace[i]
            rsi == IF <<"rsi", 14>> \in DOMAIN e.indicators
                   THEN e.indicators[<<"rsi", 14>>] ELSE Number("RSI", 50, 1)
            close == IF <<"close">> \in DOMAIN e.indicators
                     THEN e.indicators[<<"close">>] ELSE 100
            m == e.model_output
        IN
        (e.passed /\ rsi.kind = "number") =>
            IF rsi.num < 30 * rsi.den
            THEN /\ IsRatio(m.prediction_value, close * 102, 100)
                 /\ IsRatio(m.confidence_score, 7, 10)
                 /\ IsRatio(m.signal_strength, 5, 10)
            ELSE IF rsi.num > 70 * rsi.den
            THEN /\ IsRatio(m.prediction_value, close * 98, 100)
                 /\ IsRatio(m.confidence_score, 7, 10)
                 /\ IsRatio(m.signal_strength, 0 - 5, 10)
            ELSE /\ IsRatio(m.prediction_value, close, 1)
                 /\ IsRatio(m.confidence_score, 5, 10)
                 /\ IsRatio(m.signal_strength, 0, 1)

\* the model was given rsi_14 = 30 and then rsi_14 = 70
C19_Witness ==
    /\ Len(pred_trace) = 2
    /\ pred_trace[1].indicators = (IndicatorRecord("BTC/USD", 60, 0) @@ (<<"close">> :> 250)
                                      @@ (<<"rsi", 14>> :> Number("RSI", 30, 1)))
    /\ pred_trace[2].indicators = (IndicatorRecord("BTC/USD", 60, 1) @@ (<<"close">> :> 250)
                                      @@ (<<"rsi", 14>> :> Number("RSI", 70, 1)))
    /\ Len(pred_topic) = 2

\* C20: a record for which the model or the construction of the prediction
\* raises produces nothing, and the records after it are still processed: the
\* topic holds one prediction for each record that passed without failure
C20_FailureProducesNothing ==
    /\ pred_topic = Produced(pred_trace)
    /\ \A i \in 1..Len(pred_trace) :
          LET e == pred_trace[i] IN
          /\ e.step \in {"model", "construction"} => e.produced = <<>>
          /\ e.step = "none" =>
                /\ Len(e.produced) = 1
                /\ DOMAIN e.produced[1] # {}
                /\ e.produced[1].input_indicators = e.indicators

\* the model raised on a None rsi_14, the record after it was predicted
C20_Witness ==
    /\ Len(pred_trace) = 2
    /\ pred_trace[1].step = "model"
    /\ pred_trace[2].step = "none"
    /\ Len(pred_topic) = 1
    /\ pred_topic[1].input_indicators = pred_trace[2].indicators

\* C21: a record with no usable rsi_14 (no key, or the None the indicators
\* service puts under the key for a NaN) and a usable or missing close gives
\* the neutral prediction: prediction_value = close (100 when missing),
\* confidence 0.5, signal_strength 0, and that prediction is produced
C21_DefaultsGiveNeutralPrediction ==
    \A i \in 1..Len(pred_trace) :
        LET e == pred_trace[i]
            unusable == \/ <<"rsi", 14>> \notin DOMAIN e.indicators
                        \/ e.indicators[<<"rsi", 14>>].kind = "None"
            close == IF <<"close">> \in DOMAIN e.indicators
                     THEN e.indicators[<<"close">>] ELSE 100
        IN
        (e.passed /\ unusable /\ close > 0 /\ <<"pair">> \in DOMAIN e.indicators) =>
            /\ Len(e.produced) = 1
            /\ e.produced[1].prediction_value = ToStr(Float(close, 1))
            /\ IsRatio(e.produced[1].confidence_score[2], 5, 10)
            /\ IsRatio(e.produced[1].signal_strength[2], 0, 1)

\* C30: every record produced to the predictions topic has prediction_value
\* > 0, confidence_score in [0, 1], signal_strength in [-1, 1], a positive
\* horizon and a non-empty features_used; a record whose prediction would
\* break one of these (close <= 0) produces nothing
C30_ProducedPredictionsAreValid ==
    /\ \A i \in 1..Len(pred_topic) :
          LET r == pred_topic[i] IN
          /\ DOMAIN r # {}
          /\ r.prediction_value[2].num > 0 /\ r.prediction_value[2].den > 0
          /\ 0 <= r.confidence_score[2].num
          /\ r.confidence_score[2].num <= r.confidence_score[2].den
          /\ 0 - r.signal_strength[2].den <= r.signal_strength[2].num
          /\ r.signal_strength[2].num <= r.signal_strength[2].den
          /\ r.prediction_horizon_minutes > 0
          /\ r.features_used # <<>>
    /\ \A i \in 1..Len(pred_trace) :
          LET e == pred_trace[i] IN
          (<<"close">> \in DOMAIN e.indicators /\ e.indicators[<<"close">>] <= 0)
              => e.produced = <<>>

\* a record with close = 0 produced nothing, the record after it a prediction
C30_Witness ==
    /\ Len(pred_trace) = 2
    /\ pred_trace[1].passed /\ pred_trace[1].indicators[<<"close">>] = 0
    /\ pred_trace[1].step = "construction"
    /\ pred_trace[2].step = "none"
    /\ Len(pred_topic) = 1

----
(* init_candle and update_candle *)

ReducedPrices_(trades) == [i \in 1..Len(trades) |-> trades[i].price]
ReducedQuantities_(trades) == [i \in 1..Len(trades) |-> trades[i].quantity]

\* C25: whatever trades update_candle is given, open and pair keep the values
\* init_candle took from the first trade of the window
C25_OpenAndPairKept ==
    r_candle # <<>> =>
        /\ r_candle[1].open = r_trades[1].price
        /\ r_candle[1].pair = r_trades[1].product_id

\* three trades of different prices and product ids went through the reducer
C25_Witness ==
    /\ Len(r_trades) = 3
    /\ r_trades[1].price = 100 /\ r_trades[1].product_id = BTCUSD
    /\ r_trades[2].price = 0 /\ r_trades[2].product_id = <<>>
    /\ r_trades[3].price = MaxPrice + 1 /\ r_trades[3].product_id = <<>>
    /\ r_candle[1].open = 100 /\ r_candle[1].pair = BTCUSD /\ r_candle[1].close = MaxPrice + 1

\* C26: a trade that fails the validation is logged with a warning and is
\* folded like any other: the candle depends on the prices, quantities and
\* product id of all the trades given, valid or not
C26_InvalidTradeIsFolded ==
    /\ \A i \in 1..Len(r_trades) :
          TradeMessage_from_dict(r_trades[i], ClockMs) # "ok" => "warning" \in r_logged[i]
    /\ r_trades # <<>> =>
          r_candle = <<[open |-> r_trades[1].price,
                        high |-> SeqMax(ReducedPrices_(r_trades)),
                        low |-> SeqMin(ReducedPrices_(r_trades)),
                        close |-> r_trades[Len(r_trades)].price,
                        volume |-> SeqSum(ReducedQuantities_(r_trades)),
                        pair |-> r_trades[1].product_id]>>

\* a valid trade, then a trade of price 0 and negative quantity, then a trade
\* over the price limit with a timestamp in the future
C26_Witness ==
    /\ Len(r_trades) = 3
    /\ r_trades[1] = [product_id |-> BTCUSD, price |-> 100, quantity |-> 2,
                      timestamp_ms |-> ClockMs]
    /\ r_trades[2] = [product_id |-> BTCUSD, price |-> 0, quantity |-> -1,
                      timestamp_ms |-> ClockMs]
    /\ r_trades[3] = [product_id |-> BTCUSD, price |-> MaxPrice + 1, quantity |-> 2,
                      timestamp_ms |-> ClockMs + FutureSkewMs + 1]
    /\ r_logged = <<{"debug"}, {"warning"}, {"warning"}>>
    /\ r_candle[1].low = 0 /\ r_candle[1].high = MaxPrice + 1 /\ r_candle[1].volume = 3

----
(* Properties of the historical ingestion: order of the pairs, end, failures *)

\* the cursor the first request of every pair starts from
T0 == Ts(StartSecond, 200)

\* C27: the pairs are handled one at a time in list order: the current pair is
\* the one at current_product_index, which never decreases and increases by 1
\* only in a successful round whose new since is after now - 1 s; the pairs
\* before it are the finished ones, and the next pair starts from the same T0.
C27_PairsInListOrder ==
    /\ [](/\ original_since_timestamp_ns = T0
          /\ finished = 0..(current_product_index - 1)
          /\ ~is_done => current_product_id = product_ids[current_product_index + 1])
    /\ [][/\ current_product_index' >= current_product_index
          /\ current_product_index' # current_product_index =>
                /\ current_product_index' = current_product_index + 1
                /\ request' = <<RequestParams(Api)>>
                /\ returned' = convert_to_trade_objects(Api, raw_rows')
                /\ TsLess(TsMinusSeconds(clock_ns, 1), IntOfFloat(response_last'[1]))
                /\ ~is_done' =>
                      /\ current_product_id' = product_ids[current_product_index' + 1]
                      /\ since_timestamp_ns' = T0]_vars

\* the first of two pairs was finished and the second one starts from T0
C27_Witness ==
    /\ calls = "ok_next"
    /\ product_ids = <<"BTC/USD", "ETH/USD">>
    /\ current_product_index = 1
    /\ current_product_id = "ETH/USD"
    /\ request[1].pair = "BTC/USD" /\ request[1].since # T0
    /\ since_timestamp_ns = T0

\* C28: is_done() is true exactly when current_product_index has reached the
\* number of pairs; once true it stays true, and a get_trades call made then
\* returns the empty list, sends no request and changes no field.
C28_DoneIsFinal ==
    /\ [](is_done <=> current_product_index >= Len(product_ids))
    /\ [][is_done =>
            /\ is_done'
            /\ UNCHANGED <<product_ids, current_product_index, current_product_id,
                           since_timestamp_ns, original_since_timestamp_ns, request,
                           response_last, raw_rows, finished>>
            /\ clock_ns' = clock_ns => calls' = "done" /\ returned' = <<>>]_vars

\* get_trades was called after the last pair was finished by a round that
\* returned trades
C28_Witness ==
    /\ is_done
    /\ calls = "done"
    /\ returned = <<>>
    /\ raw_rows # <<>>
    /\ current_product_index = Len(product_ids)
    /\ request[1].pair = product_ids[Len(product_ids)]

\* C29: a round that fails returns the empty list and leaves the since cursor,
\* the current pair and is_done as they were: the request of the next call is
\* the one just sent.
C29_FailedRoundChangesNothing ==
    /\ [](calls \in FailKinds =>
            /\ returned = <<>>
            /\ ~is_done
            /\ request = <<RequestParams(Api)>>)
    /\ [][calls' \in FailKinds =>
            UNCHANGED <<since_timestamp_ns, current_product_index, current_product_id,
                        is_done>>]_vars

\* a round failed on an SSL error after the cursor of the second pair had advanced
C29_Witness ==
    /\ calls = "ssl"
    /\ returned = <<>>
    /\ current_product_index = 1
    /\ since_timestamp_ns # T0
    /\ request = <<[pair |-> "ETH/USD", since |-> since_timestamp_ns]>>

----
(* Properties of the start-up *)

StartUps == 1..Len(start_trace)
SinkStartUps == {i \in StartUps : start_trace[i].service = "technical_indicators"}
Issued(i, statement) ==
    \E k \in 1..Len(start_trace[i].statements) : start_trace[i].statements[k] = statement

\* C22, as claimed: each of the candles, technical indicators and predictions
\* services starts from the earliest offset exactly when the processing mode
\* is historical, and from the latest one in live mode.
C22_EarliestIffHistorical ==
    \A i \in StartUps :
        /\ start_trace[i].auto_offset_reset = "earliest"
              <=> start_trace[i].processing_mode = "historical"
        /\ start_trace[i].auto_offset_reset = "latest"
              <=> start_trace[i].processing_mode = "live"

\* C23, as claimed: over any number of start-ups at most one CREATE TABLE is
\* executed for a table name.
C23_AtMostOneCreateExecuted ==
    \A t \in TableNames :
        Cardinality({i \in SinkStartUps :
                        start_trace[i].table_name = t /\ Issued(i, "CREATE TABLE")}) <= 1

\* C23, amended: the table is looked up before any CREATE TABLE; when it
\* exists no CREATE TABLE is issued and success is reported; over any number of
\* start-ups at most one CREATE TABLE succeeds for a table name.
C23_CreateIsIdempotent ==
    /\ \A i \in SinkStartUps :
          LET e == start_trace[i] IN
          /\ Issued(i, "CREATE TABLE") => e.statements[1] = "SELECT EXISTS" /\ ~e.existed
          /\ (e.existed /\ e.failure \notin {"connectivity", "connect", "check"}) =>
                /\ ~Issued(i, "CREATE TABLE")
                /\ e.table_created
    /\ \A t \in TableNames :
          Cardinality({i \in SinkStartUps :
                          start_trace[i].table_name = t /\ start_trace[i].created}) <= 1

\* a CREATE TABLE failed, the next start-up created the table and the third
\* found it there
C23_Witness ==
    /\ Len(start_trace) = 3
    /\ \A i \in StartUps : start_trace[i].table_name = "technical_indicators"
    /\ start_trace[1].failure = "ddl" /\ Issued(1, "CREATE TABLE") /\ ~start_trace[1].created
    /\ start_trace[2].failure = "none" /\ start_trace[2].created
    /\ start_trace[3].failure = "none" /\ start_trace[3].existed
    /\ start_trace[3].statements = <<"SELECT EXISTS">> /\ start_trace[3].table_created
    /\ sink_tables = {"technical_indicators"}

\* C24: when the connectivity test, the connection or a statement on the sink
\* store fails at start-up, the table is reported as not created (False) and
\* the stream processing of the technical indicators service is started all
\* the same.
C24_SinkFailureIsNotFatal ==
    \A i \in SinkStartUps :
        LET e == start_trace[i] IN
        /\ e.stream_started
        /\ e.failure = "connectivity" => ~e.table_created /\ e.statements = <<>>
        /\ e.failure \in {"connect", "check"} => ~e.table_created
        /\ (e.failure = "ddl" /\ ~e.existed) => ~e.table_created /\ ~e.created

\* three start-ups: the connectivity test failed, then the connection, then
\* the CREATE TABLE; the stream processing was started each time
C24_Witness ==
    /\ Len(start_trace) = 3
    /\ \A i \in StartUps : start_trace[i].service = "technical_indicators"
    /\ start_trace[1].failure = "connectivity"
    /\ start_trace[2].failure = "connect"
    /\ start_trace[3].failure = "ddl" /\ Issued(3, "CREATE TABLE")
    /\ \A i \in StartUps : start_trace[i].stream_started /\ ~start_trace[i].table_created
    /\ sink_tables = {}

====
